---- MODULE Spec2Model ----
(***************************************************************************)
(* Model of src/src/components/PortfolioManagerPAI.tsx: the portfolio      *)
(* collection held by the PortfolioManagerPAI component, its mutation      *)
(* commands and the effect that persists it, the pure functions            *)
(* aggregatePositions, shareCountAtDate, upsert and csvToTransactions, and *)
(* the API route that keeps the collection in a file behind the GitHub     *)
(* contents API.                                                           *)
(*                                                                         *)
(* Numbers.  A JavaScript number is modelled as an exact rational          *)
(* [n |-> numerator, d |-> denominator] in lowest terms with d > 0, so     *)
(* that "exactly" in a statement means equality of rationals.  Two values  *)
(* with d = 0 stand for the non-numbers the code tests for: Undef (an      *)
(* absent optional field, `undefined`) and NaNv (the result of a division  *)
(* by zero).                                                               *)
(*                                                                         *)
(* Dates.  A date string is modelled by a natural number: a day number     *)
(* for a string `new Date` can parse, and InvalidDate for one it cannot    *)
(* (the empty string a cleared date input yields).                         *)
(***************************************************************************)
EXTENDS Integers, Sequences, FiniteSets, TLC

VARIABLES data, sel, nextId,     \* the component: collection, selection, next uid()
          csvText,               \* the text of the CSV import box
          saved,                 \* the collection held in localStorage
          env, file, req, seen   \* the API route: settings, stored file, requests, clients

vars == <<data, sel, nextId, csvText, saved, env, file, req, seen>>

\* What no command of the component touches: the state of the API route.
remoteVars == <<env, file, req, seen>>

----------------------------------------------------------------------------
(* Numbers *)

Abs(x) == IF x < 0 THEN -x ELSE x

RECURSIVE GCD(_, _)
GCD(a, b) == IF b = 0 THEN a ELSE GCD(b, a % b)

Undef == [n |-> 0, d |-> 0]
NaNv  == [n |-> 1, d |-> 0]

IsNum(x) == x.d > 0

Rat(n, d) ==
  IF d = 0 THEN NaNv
  ELSE LET g == GCD(Abs(n), Abs(d))
           s == IF d < 0 THEN -1 ELSE 1
       IN  [n |-> (s * n) \div g, d |-> (s * d) \div g]

Num(k) == Rat(k, 1)
Zero == Num(0)
Hundred == Num(100)

\* The operands are reduced before they are multiplied, to keep the
\* intermediate products small.
RAdd(x, y) ==
  IF IsNum(x) /\ IsNum(y)
  THEN LET g == GCD(x.d, y.d)
       IN  Rat(x.n * (y.d \div g) + y.n * (x.d \div g), (x.d \div g) * y.d)
  ELSE NaNv
RNeg(x)    == IF IsNum(x) THEN [n |-> -x.n, d |-> x.d] ELSE NaNv
RSub(x, y) == RAdd(x, RNeg(y))
RMul(x, y) ==
  IF IsNum(x) /\ IsNum(y)
  THEN LET g1 == GCD(Abs(x.n), y.d)
           g2 == GCD(Abs(y.n), x.d)
       IN  Rat((x.n \div g1) * (y.n \div g2), (x.d \div g2) * (y.d \div g1))
  ELSE NaNv
RDiv(x, y) ==
  IF IsNum(x) /\ IsNum(y)
  THEN (IF y.n = 0 THEN NaNv
        ELSE RMul(x, [n |-> (IF y.n < 0 THEN -y.d ELSE y.d), d |-> Abs(y.n)]))
  ELSE NaNv

\* JavaScript comparisons: any comparison with a non-number is false.
RLe(x, y) ==
  /\ IsNum(x) /\ IsNum(y)
  /\ LET g == GCD(x.d, y.d) IN x.n * (y.d \div g) <= y.n * (x.d \div g)
RLt(x, y) ==
  /\ IsNum(x) /\ IsNum(y)
  /\ LET g == GCD(x.d, y.d) IN x.n * (y.d \div g) < y.n * (x.d \div g)
RGe(x, y) == RLe(y, x)
RGt(x, y) == RLt(y, x)
RMax(x, y) == IF IsNum(x) /\ IsNum(y) THEN (IF RLt(x, y) THEN y ELSE x) ELSE NaNv

\* Truthiness of a number-or-undefined value: undefined, NaN and 0 are falsy.
Truthy(x) == IsNum(x) /\ x.n # 0
\* `x || 0`
OrZero(x) == IF Truthy(x) THEN x ELSE Zero
\* `x != null`
NotNull(x) == x # Undef

----------------------------------------------------------------------------
(* Dates: new Date(s) and the <= of two Date objects *)

InvalidDate == 0

DateValid(s) == s # InvalidDate

\* DateLe with < in the place of <=.
DateLeStrict(a, b) == DateValid(a) /\ DateValid(b) /\ a < b

\* DateLe with the operands exchanged.
DateLeReversed(a, b) == DateValid(a) /\ DateValid(b) /\ b <= a

\* new Date(a) <= new Date(b): false when either side is an Invalid Date.
DateLe(a, b) == DateValid(a) /\ DateValid(b) /\ a <= b

----------------------------------------------------------------------------
(* Tickers and their order under String.localeCompare *)

\* The two tickers of the demo portfolio; PETR4 sorts before VALE3, and
\* ITUB4, a third ticker, before both.
Tickers == {"PETR4", "VALE3"}
TickerRank(t) == CASE t = "ITUB4" -> 0 [] t = "PETR4" -> 1 [] OTHER -> 2
localeCompareLt(a, b) == TickerRank(a) < TickerRank(b)

----------------------------------------------------------------------------
(* shareCountAtDate *)

RECURSIVE signedQtyUpTo(_, _, _, _)
signedQtyUpTo(transactions, ticker, dateISO, k) ==
  IF k = 0 THEN Zero
  ELSE LET t == transactions[k]
           q == signedQtyUpTo(transactions, ticker, dateISO, k - 1)
       IN  IF t.ticker # ticker THEN q
           ELSE IF DateLe(t.date, dateISO)
                THEN (IF t.type = "BUY" THEN RAdd(q, t.qty) ELSE RSub(q, t.qty))
                ELSE q

shareCountAtDate(transactions, ticker, dateISO) ==
  RMax(signedQtyUpTo(transactions, ticker, dateISO, Len(transactions)), Zero)

----------------------------------------------------------------------------
(* aggregatePositions *)

\* The keys of txByTicker in Map insertion order: each ticker once, in the
\* order of its first transaction.
RECURSIVE txTickers(_, _)
txTickers(transactions, k) ==
  IF k = 0 THEN <<>>
  ELSE LET sofar == txTickers(transactions, k - 1)
           t     == transactions[k].ticker
       IN  IF \E i \in 1..Len(sofar) : sofar[i] = t THEN sofar ELSE Append(sofar, t)

\* txByTicker.get(ticker): the ticker's transactions in stored order.
txByTicker(transactions, ticker) ==
  SelectSeq(transactions, LAMBDA t : t.ticker = ticker)

\* new Map(p.prices.map(x => [x.ticker, x.price])).get(ticker): the last
\* entry of a ticker wins; undefined when the ticker has none.
RECURSIVE priceMapGet(_, _, _)
priceMapGet(prices, ticker, k) ==
  IF k = 0 THEN Undef
  ELSE IF prices[k].ticker = ticker THEN prices[k].price
       ELSE priceMapGet(prices, ticker, k - 1)

\* new Map(p.triggers.map(x => [x.ticker, x])).get(ticker), as a sequence of
\* zero (undefined) or one trigger.
RECURSIVE trigMapGet(_, _, _)
trigMapGet(triggers, ticker, k) ==
  IF k = 0 THEN <<>>
  ELSE IF triggers[k].ticker = ticker THEN <<triggers[k]>>
       ELSE trigMapGet(triggers, ticker, k - 1)

\* p.triggers.find(t => t.ticker === ticker): the first match.
RECURSIVE trigFind(_, _, _)
trigFind(triggers, ticker, i) ==
  IF i > Len(triggers) THEN <<>>
  ELSE IF triggers[i].ticker = ticker THEN <<triggers[i]>>
       ELSE trigFind(triggers, ticker, i + 1)

\* divByTicker with each entry replacing the ticker's total.
RECURSIVE divByTickerLastOnly(_, _, _)
divByTickerLastOnly(p, ticker, k) ==
  IF k = 0 THEN Undef
  ELSE LET d    == p.dividends[k]
           prev == divByTickerLastOnly(p, ticker, k - 1)
       IN  IF d.ticker # ticker THEN prev
           ELSE RMul(shareCountAtDate(p.transactions, d.ticker, d.date), d.valuePerShare)

\* divByTicker.get(ticker) after the loop over p.dividends (undefined when
\* the ticker has no dividend entry).
RECURSIVE divByTicker(_, _, _)
divByTicker(p, ticker, k) ==
  IF k = 0 THEN Undef
  ELSE LET d    == p.dividends[k]
           prev == divByTicker(p, ticker, k - 1)
       IN  IF d.ticker # ticker THEN prev
           ELSE LET q   == shareCountAtDate(p.transactions, d.ticker, d.date)
                    amt == RMul(q, d.valuePerShare)
                IN  RAdd(OrZero(prev), amt)

\* foldStep with the fees of a BUY left out of the cost.
foldStepBuyWithoutFees(acc, t) ==
  LET fees == OrZero(t.fees)
  IN  IF t.type = "BUY"
      THEN [qty  |-> RAdd(acc.qty, t.qty),
            cost |-> RAdd(acc.cost, RMul(t.qty, t.price))]
      ELSE LET avg == IF RGt(acc.qty, Zero) THEN RDiv(acc.cost, acc.qty) ELSE Zero
           IN  [qty  |-> RSub(acc.qty, t.qty),
                cost |-> RAdd(RSub(acc.cost, RMul(avg, t.qty)), fees)]

\* foldStep with a SELL removing its own price per share instead of the
\* average cost.
foldStepSellAtPrice(acc, t) ==
  LET fees == OrZero(t.fees)
  IN  IF t.type = "BUY"
      THEN [qty  |-> RAdd(acc.qty, t.qty),
            cost |-> RAdd(acc.cost, RAdd(RMul(t.qty, t.price), fees))]
      ELSE [qty  |-> RSub(acc.qty, t.qty),
            cost |-> RAdd(RSub(acc.cost, RMul(t.price, t.qty)), fees)]

\* foldStep with the quantity kept from falling below 0.
foldStepClamped(acc, t) ==
  LET fees == OrZero(t.fees)
  IN  IF t.type = "BUY"
      THEN [qty  |-> RAdd(acc.qty, t.qty),
            cost |-> RAdd(acc.cost, RAdd(RMul(t.qty, t.price), fees))]
      ELSE LET avg == IF RGt(acc.qty, Zero) THEN RDiv(acc.cost, acc.qty) ELSE Zero
           IN  [qty  |-> RMax(RSub(acc.qty, t.qty), Zero),
                cost |-> RAdd(RSub(acc.cost, RMul(avg, t.qty)), fees)]

\* One iteration of the loop over a ticker's transactions.
foldStep(acc, t) ==
  LET fees == OrZero(t.fees)
  IN  IF t.type = "BUY"
      THEN [qty  |-> RAdd(acc.qty, t.qty),
            cost |-> RAdd(acc.cost, RAdd(RMul(t.qty, t.price), fees))]
      ELSE LET avg == IF RGt(acc.qty, Zero) THEN RDiv(acc.cost, acc.qty) ELSE Zero
           IN  [qty  |-> RSub(acc.qty, t.qty),
                cost |-> RAdd(RSub(acc.cost, RMul(avg, t.qty)), fees)]

\* qty and cost after the first k transactions of list.
RECURSIVE foldTx(_, _)
foldTx(list, k) ==
  IF k = 0 THEN [qty |-> Zero, cost |-> Zero]
  ELSE foldStep(foldTx(list, k - 1), list[k])

avgPriceOf(qty, cost) ==
  IF RGt(qty, Zero) THEN RDiv(cost, RMax(qty, Num(1))) ELSE Zero

\* signalOf with the stop test made first, so that a later match overrides it.
signalOfStopFirst(tr, lastPrice, plPct) ==
  IF tr = <<>> THEN "HOLD"
  ELSE LET t  == tr[1]
           s0 == IF /\ NotNull(t.trailingStopPct) /\ RGt(t.trailingStopPct, Zero)
                    /\ RGt(lastPrice, Zero)
                    /\ RLe(plPct, RNeg(t.trailingStopPct))
                 THEN "STOP" ELSE "HOLD"
           s1 == IF NotNull(t.buyPrice) /\ RGt(lastPrice, Zero) /\ RLe(lastPrice, t.buyPrice)
                 THEN "BUY" ELSE s0
       IN  IF NotNull(t.sellPrice) /\ RGt(lastPrice, Zero) /\ RGe(lastPrice, t.sellPrice)
           THEN "SELL" ELSE s1

\* The signal of a ticker that has transactions.
signalOf(tr, lastPrice, plPct) ==
  IF tr = <<>> THEN "HOLD"
  ELSE LET t  == tr[1]
           s1 == IF NotNull(t.buyPrice) /\ RGt(lastPrice, Zero) /\ RLe(lastPrice, t.buyPrice)
                 THEN "BUY" ELSE "HOLD"
           s2 == IF NotNull(t.sellPrice) /\ RGt(lastPrice, Zero) /\ RGe(lastPrice, t.sellPrice)
                 THEN "SELL" ELSE s1
       IN  IF /\ NotNull(t.trailingStopPct) /\ RGt(t.trailingStopPct, Zero)
              /\ RGt(lastPrice, Zero)
              /\ RLe(plPct, RNeg(t.trailingStopPct))
           THEN "STOP" ELSE s2

\* The signal of a ticker that has a quote and no transactions.
quoteSignalOf(tr, price) ==
  IF tr # <<>> /\ Truthy(tr[1].buyPrice) /\ RLe(price, tr[1].buyPrice) THEN "BUY"
  ELSE IF tr # <<>> /\ Truthy(tr[1].sellPrice) /\ RGe(price, tr[1].sellPrice) THEN "SELL"
  ELSE "HOLD"

\* The Position pushed for a ticker of txByTicker.
txPosition(p, ticker) ==
  LET list      == txByTicker(p.transactions, ticker)
      acc       == foldTx(list, Len(list))
      qty       == acc.qty
      cost      == acc.cost
      avgPrice  == avgPriceOf(qty, cost)
      lastPrice == OrZero(priceMapGet(p.prices, ticker, Len(p.prices)))
      mktValue  == RMul(qty, lastPrice)
      pl        == RSub(mktValue, cost)
      plPct     == IF RGt(cost, Zero) THEN RMul(RDiv(pl, cost), Hundred) ELSE Zero
      divs      == OrZero(divByTicker(p, ticker, Len(p.dividends)))
      dyOnCost  == IF RGt(cost, Zero) THEN RDiv(divs, cost) ELSE Zero
      tr        == trigMapGet(p.triggers, ticker, Len(p.triggers))
  IN  [ticker |-> ticker, qty |-> qty, invested |-> cost, avgPrice |-> avgPrice,
       lastPrice |-> lastPrice, mktValue |-> mktValue, pl |-> pl, plPct |-> plPct,
       divsTotal |-> divs, divYieldOnCost |-> dyOnCost,
       signal |-> signalOf(tr, lastPrice, plPct), trigger |-> tr]

\* The Position pushed for a quote whose ticker has no Position yet.
quotePosition(p, pr) ==
  LET tr == trigFind(p.triggers, pr.ticker, 1)
  IN  [ticker |-> pr.ticker, qty |-> Zero, invested |-> Zero, avgPrice |-> Zero,
       lastPrice |-> pr.price, mktValue |-> Zero, pl |-> Zero, plPct |-> Zero,
       divsTotal |-> Zero, divYieldOnCost |-> Zero,
       signal |-> quoteSignalOf(tr, pr.price), trigger |-> tr]

\* positions after the loop over txByTicker, first k keys.
RECURSIVE txPositions(_, _, _)
txPositions(p, keys, k) ==
  IF k = 0 THEN <<>>
  ELSE Append(txPositions(p, keys, k - 1), txPosition(p, keys[k]))

\* withQuotePositions without the test for a Position of the same ticker.
RECURSIVE withEveryQuotePosition(_, _)
withEveryQuotePosition(p, k) ==
  IF k = 0
  THEN LET keys == txTickers(p.transactions, Len(p.transactions))
       IN  txPositions(p, keys, Len(keys))
  ELSE Append(withEveryQuotePosition(p, k - 1), quotePosition(p, p.prices[k]))

\* positions after the loop over the first k entries of p.prices.
RECURSIVE withQuotePositions(_, _)
withQuotePositions(p, k) ==
  IF k = 0
  THEN LET keys == txTickers(p.transactions, Len(p.transactions))
       IN  txPositions(p, keys, Len(keys))
  ELSE LET positions == withQuotePositions(p, k - 1)
           pr        == p.prices[k]
       IN  IF \E i \in 1..Len(positions) : positions[i].ticker = pr.ticker
           THEN positions
           ELSE Append(positions, quotePosition(p, pr))

\* A sort that leaves the array in the order it has.
sortInsertAtEnd(s, x) == Append(s, x)

\* Array.prototype.sort with (a, b) => a.ticker.localeCompare(b.ticker):
\* a stable insertion of x into the sorted sequence s.
RECURSIVE sortInsert(_, _)
sortInsert(s, x) ==
  IF s = <<>> THEN <<x>>
  ELSE IF localeCompareLt(x.ticker, s[Len(s)].ticker)
       THEN Append(sortInsert(SubSeq(s, 1, Len(s) - 1), x), s[Len(s)])
       ELSE Append(s, x)

RECURSIVE sortByTicker(_, _)
sortByTicker(s, k) ==
  IF k = 0 THEN <<>> ELSE sortInsert(sortByTicker(s, k - 1), s[k])

aggregatePositions(p) ==
  LET positions == withQuotePositions(p, Len(p.prices))
  IN  sortByTicker(positions, Len(positions))

----------------------------------------------------------------------------
(* upsert *)

RECURSIVE findIndex(_, _, _)
findIndex(arr, ticker, i) ==
  IF i > Len(arr) THEN 0
  ELSE IF arr[i].ticker = ticker THEN i ELSE findIndex(arr, ticker, i + 1)

\* upsert that never finds a match.
upsertAlwaysAppends(arr, ticker, next) == Append(arr, next)

\* upsert(arr, x => x.ticker === ticker, next); index 0 stands for -1.
upsert(arr, ticker, next) ==
  LET i == findIndex(arr, ticker, 1)
  IN  IF i = 0 THEN Append(arr, next) ELSE [arr EXCEPT ![i] = next]

----------------------------------------------------------------------------
(* The component's state and its mutation commands *)

\* todayISO(), as a day number.
Today == 2

\* useMemo(() => data.find(p => p.id === sel) || null): the index of the
\* current portfolio in data, 0 for null.
RECURSIVE findPortfolio(_, _, _)
findPortfolio(d, id, i) ==
  IF i > Len(d) THEN 0
  ELSE IF d[i].id = id THEN i ELSE findPortfolio(d, id, i + 1)

currentIdx == findPortfolio(data, sel, 1)
hasCurrent == currentIdx # 0
current    == data[currentIdx]

\* useState(""): a text is modelled by its lines, a line by its cells.
EmptyText == <<>>

\* JSON.stringify followed by JSON.parse, for a number-or-undefined field:
\* NaN is written as null; a key holding undefined is not written and reads
\* back as undefined.
Null == [n |-> 0, d |-> -2]
jsonNumber(x) == IF x = NaNv THEN Null ELSE x

jsonPortfolio(p) ==
  [p EXCEPT
     !.transactions = [i \in 1..Len(@) |->
                         [@[i] EXCEPT !.qty = jsonNumber(@), !.price = jsonNumber(@),
                                      !.fees = jsonNumber(@)]],
     !.prices       = [i \in 1..Len(@) |-> [@[i] EXCEPT !.price = jsonNumber(@)]],
     !.triggers     = [i \in 1..Len(@) |->
                         [@[i] EXCEPT !.buyPrice = jsonNumber(@), !.sellPrice = jsonNumber(@),
                                      !.trailingStopPct = jsonNumber(@)]],
     !.dividends    = [i \in 1..Len(@) |-> [@[i] EXCEPT !.valuePerShare = jsonNumber(@)]],
     !.history      = [i \in 1..Len(@) |-> [@[i] EXCEPT !.totalValue = jsonNumber(@)]]]

\* saveAll(data): the collection localStorage holds after the write, as
\* loadAll parses it back.
saveAll(d) == [i \in 1..Len(d) |-> jsonPortfolio(d[i])]

\* loadAll(): the stored collection, [] when nothing is stored.
loadAll == saved

\* The effect on [data]: if (data.length > 0) saveAll(data).  It runs after
\* every render that follows a setData, so it is part of every command.
persist == saved' = IF Len(data') > 0 THEN saveAll(data') ELSE saved

\* addTx(tx): tx is a transaction without id; uid() is the fresh nextId.
addTx(tx) ==
  /\ hasCurrent
  /\ LET n == [id |-> nextId, date |-> tx.date, ticker |-> tx.ticker, type |-> tx.type,
               qty |-> tx.qty, price |-> tx.price, fees |-> tx.fees]
     IN  data' = [i \in 1..Len(data) |->
                   IF data[i].id = current.id
                   THEN [data[i] EXCEPT !.transactions = Append(@, n)]
                   ELSE data[i]]
  /\ nextId' = nextId + 1
  /\ persist
  /\ UNCHANGED sel
  /\ UNCHANGED csvText
  /\ UNCHANGED remoteVars

removeTx(id) ==
  /\ hasCurrent
  /\ data' = [i \in 1..Len(data) |->
               IF data[i].id = current.id
               THEN [data[i] EXCEPT !.transactions = SelectSeq(@, LAMBDA t : t.id # id)]
               ELSE data[i]]
  /\ persist
  /\ UNCHANGED <<sel, nextId>>
  /\ UNCHANGED csvText
  /\ UNCHANGED remoteVars

\* setPrice(ticker, price); updatedAt is a timestamp no computation reads
\* and is left out of the quote.
setPrice(ticker, price) ==
  /\ hasCurrent
  /\ LET now == [ticker |-> ticker, price |-> price]
     IN  data' = [i \in 1..Len(data) |->
                   IF data[i].id = current.id
                   THEN [data[i] EXCEPT !.prices = upsert(@, ticker, now)]
                   ELSE data[i]]
  /\ persist
  /\ UNCHANGED <<sel, nextId>>
  /\ UNCHANGED csvText
  /\ UNCHANGED remoteVars

\* The value of a key that an object literal does not hold, as opposed to a
\* key held with the value undefined.
NoKey == [n |-> 0, d |-> -1]

\* { ...base, ...tr } for one field.
spreadField(baseVal, trVal) == IF trVal = NoKey THEN baseVal ELSE trVal

\* setTrigger(tick, tr); the note is text no computation reads and is left
\* out of the trigger.
setTrigger(tick, tr) ==
  /\ hasCurrent
  /\ LET found == trigFind(current.triggers, tick, 1)
         base  == IF found = <<>>
                  THEN [ticker |-> tick, buyPrice |-> Undef, sellPrice |-> Undef,
                        trailingStopPct |-> Undef]
                  ELSE found[1]
         next  == [ticker          |-> base.ticker,
                   buyPrice        |-> spreadField(base.buyPrice, tr.buyPrice),
                   sellPrice       |-> spreadField(base.sellPrice, tr.sellPrice),
                   trailingStopPct |-> spreadField(base.trailingStopPct, tr.trailingStopPct)]
     IN  data' = [i \in 1..Len(data) |->
                   IF data[i].id = current.id
                   THEN [data[i] EXCEPT !.triggers = upsert(@, tick, next)]
                   ELSE data[i]]
  /\ persist
  /\ UNCHANGED <<sel, nextId>>
  /\ UNCHANGED csvText
  /\ UNCHANGED remoteVars

addDividend(d1) ==
  /\ hasCurrent
  /\ LET n == [id |-> nextId, date |-> d1.date, ticker |-> d1.ticker,
               valuePerShare |-> d1.valuePerShare]
     IN  data' = [i \in 1..Len(data) |->
                   IF data[i].id = current.id
                   THEN [data[i] EXCEPT !.dividends = Append(@, n)]
                   ELSE data[i]]
  /\ nextId' = nextId + 1
  /\ persist
  /\ UNCHANGED sel
  /\ UNCHANGED csvText
  /\ UNCHANGED remoteVars

removeDividend(id) ==
  /\ hasCurrent
  /\ data' = [i \in 1..Len(data) |->
               IF data[i].id = current.id
               THEN [data[i] EXCEPT !.dividends = SelectSeq(@, LAMBDA x : x.id # id)]
               ELSE data[i]]
  /\ persist
  /\ UNCHANGED <<sel, nextId>>
  /\ UNCHANGED csvText
  /\ UNCHANGED remoteVars

\* positions = useMemo(() => current ? aggregatePositions(current) : [])
positions == IF hasCurrent THEN aggregatePositions(current) ELSE <<>>

----------------------------------------------------------------------------
(* The API route src/app/api/portfolios/route.ts and the GitHub contents
   API behind it.  env is the set of environment variables that are set;
   file is the stored document (rev counts the writes it has received);
   req[c] is the request of client c in flight and its response; seen[c] is
   the rev of the document client c last received from GET. *)

Clients == {1, 2}
EnvNames ==
  {"GITHUB_OWNER", "GITHUB_REPO", "GITHUB_TOKEN", "GITHUB_BRANCH", "GITHUB_DATA_PATH"}

\* The JSON arrays a client sends, and the array [].
Docs == {"docA", "docB"}
EmptyArray == "[]"

\* The module constants of the route; "" for an undefined one.
OWNER == IF "GITHUB_OWNER" \in env THEN "owner" ELSE ""
REPO  == IF "GITHUB_REPO" \in env THEN "repo" ELSE ""
TOKEN == IF "GITHUB_TOKEN" \in env THEN "token" ELSE ""
BRANCH == IF "GITHUB_BRANCH" \in env THEN "branch" ELSE "main"
DATA_PATH == IF "GITHUB_DATA_PATH" \in env THEN "path" ELSE "data/portfolios.json"

\* Errors, by the part of the message the route reads.
NoError == [kind |-> "none", missing |-> <<>>]
Thrown(kind) == [kind |-> kind, missing |-> <<>>]

\* assertEnvs() reporting only the first of the names it misses.
missingEnvsFirstOnly ==
  IF OWNER = "" THEN <<"GITHUB_OWNER">>
  ELSE IF REPO = "" THEN <<"GITHUB_REPO">>
  ELSE IF TOKEN = "" THEN <<"GITHUB_TOKEN">>
  ELSE <<>>

\* assertEnvs(): the names pushed to missing, in order.
missingEnvs ==
     (IF OWNER = "" THEN <<"GITHUB_OWNER">> ELSE <<>>)
  \o (IF REPO = "" THEN <<"GITHUB_REPO">> ELSE <<>>)
  \o (IF TOKEN = "" THEN <<"GITHUB_TOKEN">> ELSE <<>>)
  \o (IF BRANCH = "" THEN <<"GITHUB_BRANCH">> ELSE <<>>)
  \o (IF DATA_PATH = "" THEN <<"GITHUB_DATA_PATH">> ELSE <<>>)

assertEnvs ==
  IF Len(missingEnvs) > 0 THEN [kind |-> "Env faltando", missing |-> missingEnvs]
  ELSE NoError

\* The sha of a stored file: the hash of its content.
NoSha == <<>>
blobSha(content) == <<"sha", content>>

\* What the contents API answers.  fault is a failure of the backend itself:
\* 0 for none, else the status it answers with.
Faults == {0, 401, 403, 500}

contentsGetStatus(fault) ==
  IF fault # 0 THEN fault ELSE IF file.exists THEN 200 ELSE 404

\* A write without sha creates the file and is refused (422) when the file
\* exists; a write with sha replaces the file when the sha is the file's and
\* is refused (409) otherwise.
contentsPutStatus(prevSha, fault) ==
  IF fault # 0 THEN fault
  ELSE IF ~file.exists THEN (IF prevSha = NoSha THEN 201 ELSE 422)
  ELSE IF prevSha = NoSha THEN 422
  ELSE IF prevSha = blobSha(file.content) THEN 200 ELSE 409

IsOk(status) == status \in 200..299

\* githubGetFile with every status that is no success taken for a missing
\* file.
githubGetFileLenient(fault) ==
  IF assertEnvs # NoError
  THEN [err |-> assertEnvs, json |-> EmptyArray, sha |-> NoSha, sent |-> FALSE]
  ELSE IF ~IsOk(contentsGetStatus(fault))
  THEN [err |-> NoError, json |-> EmptyArray, sha |-> NoSha, sent |-> TRUE]
  ELSE [err |-> NoError, json |-> file.content, sha |-> blobSha(file.content),
        sent |-> TRUE]

\* githubGetFile(): the error thrown or the json and sha returned, and
\* whether a request went to the backend.
githubGetFile(fault) ==
  IF assertEnvs # NoError
  THEN [err |-> assertEnvs, json |-> EmptyArray, sha |-> NoSha, sent |-> FALSE]
  ELSE LET status == contentsGetStatus(fault)
       IN  IF status = 404
           THEN [err |-> NoError, json |-> EmptyArray, sha |-> NoSha, sent |-> TRUE]
           ELSE IF status \in {401, 403}
           THEN [err |-> Thrown("Permissao negada"), json |-> EmptyArray, sha |-> NoSha,
                 sent |-> TRUE]
           ELSE IF ~IsOk(status)
           THEN [err |-> Thrown("GET"), json |-> EmptyArray, sha |-> NoSha, sent |-> TRUE]
           ELSE [err |-> NoError, json |-> file.content, sha |-> blobSha(file.content),
                 sent |-> TRUE]

\* githubPutFile(nextJson, prevSha): the error thrown, whether a request went
\* to the backend, and the file after it.
githubPutFile(nextJson, prevSha, fault) ==
  IF assertEnvs # NoError
  THEN [err |-> assertEnvs, sent |-> FALSE, file |-> file]
  ELSE LET status == contentsPutStatus(prevSha, fault)
       IN  IF status \in {401, 403}
           THEN [err |-> Thrown("Permissao negada"), sent |-> TRUE, file |-> file]
           ELSE IF status = 409
           THEN [err |-> Thrown("409 (conflict)"), sent |-> TRUE, file |-> file]
           ELSE IF ~IsOk(status)
           THEN [err |-> Thrown("PUT"), sent |-> TRUE, file |-> file]
           ELSE [err |-> NoError, sent |-> TRUE,
                 file |-> [exists |-> TRUE, content |-> nextJson, rev |-> file.rev + 1]]

\* The status of the PUT route's catch block.
putErrorStatus(err) ==
  IF err.kind = "409 (conflict)" THEN 409
  ELSE IF err.kind = "Permissao negada" THEN 403
  ELSE 500

\* Request bodies: a JSON object with or without the key data, a JSON value
\* that is no object (null), and text that is no JSON.
NoData == "no data"
Bodies ==
  { [json |-> "object", data |-> d] : d \in Docs \cup {NoData} }
    \cup { [json |-> "null", data |-> NoData], [json |-> "invalid", data |-> NoData] }

\* A client with no request in flight and no response yet.
idleRequest ==
  [pc |-> "idle", method |-> "", body |-> [json |-> "object", data |-> NoData],
   sha |-> NoSha, status |-> 0, err |-> NoError, json |-> EmptyArray,
   fetches |-> 0, writes |-> 0, based |-> 0, n |-> 0]

\* The start of a request of client c.
newRequest(c, method, body) ==
  [idleRequest EXCEPT !.method = method, !.body = body, !.based = seen[c],
                      !.n = req[c].n + 1]

respond(r, status, err) == [r EXCEPT !.pc = "idle", !.status = status, !.err = err]

uiVars == <<data, sel, nextId, csvText, saved>>

\* GET(): githubGetFile, then 200 with the json or 500 with the message.
GET(c, fault) ==
  /\ req[c].pc = "idle"
  /\ LET r == githubGetFile(fault)
         q == [newRequest(c, "GET", idleRequest.body)
                 EXCEPT !.fetches = IF r.sent THEN 1 ELSE 0, !.json = r.json]
     IN  /\ req' = [req EXCEPT ![c] = IF r.err = NoError THEN respond(q, 200, NoError)
                                      ELSE respond(q, 500, r.err)]
         /\ seen' = IF r.err = NoError THEN [seen EXCEPT ![c] = file.rev] ELSE seen
  /\ UNCHANGED <<env, file>>
  /\ UNCHANGED uiVars

\* PUT(req) up to its first await on the backend: req.json() and the test of
\* "data" in body.
PutReceive(c, body) ==
  /\ req[c].pc = "idle"
  /\ LET q == newRequest(c, "PUT", body)
     IN  req' = [req EXCEPT ![c] =
                   IF body.json \in {"invalid", "null"} THEN respond(q, 500, Thrown("TypeError"))
                   ELSE IF body.data = NoData THEN respond(q, 400, Thrown("Missing 'data' field"))
                   ELSE [q EXCEPT !.pc = "fetch"]]
  /\ UNCHANGED <<env, file, seen>>
  /\ UNCHANGED uiVars

\* const { sha } = await githubGetFile()
PutFetch(c, fault) ==
  /\ req[c].pc = "fetch"
  /\ LET r == githubGetFile(fault)
         q == [req[c] EXCEPT !.fetches = @ + (IF r.sent THEN 1 ELSE 0)]
     IN  req' = [req EXCEPT ![c] =
                   IF r.err = NoError THEN [q EXCEPT !.pc = "write", !.sha = r.sha]
                   ELSE respond(q, putErrorStatus(r.err), r.err)]
  /\ UNCHANGED <<env, file, seen>>
  /\ UNCHANGED uiVars

\* await githubPutFile(body.data, sha), and the response
PutWrite(c, fault) ==
  /\ req[c].pc = "write"
  /\ LET r == githubPutFile(req[c].body.data, req[c].sha, fault)
         q == [req[c] EXCEPT !.writes = @ + (IF r.sent THEN 1 ELSE 0)]
     IN  /\ req' = [req EXCEPT ![c] =
                      IF r.err = NoError THEN respond(q, 200, NoError)
                      ELSE respond(q, putErrorStatus(r.err), r.err)]
         /\ file' = r.file
  /\ UNCHANGED <<env, seen>>
  /\ UNCHANGED uiVars

NoFile == [exists |-> FALSE, content |-> EmptyArray, rev |-> 0]

\* The route with every setting present, no stored file and no request.
remoteIdle ==
  /\ env = EnvNames
  /\ file = NoFile
  /\ req = [c \in Clients |-> idleRequest]
  /\ seen = [c \in Clients |-> 0]

----------------------------------------------------------------------------
(* Initial collections *)

Tx(id, date, ticker, type, qty, price, fees) ==
  [id |-> id, date |-> date, ticker |-> ticker, type |-> type,
   qty |-> qty, price |-> price, fees |-> fees]
Quote(ticker, price) == [ticker |-> ticker, price |-> price]
Trig(ticker, buy, sell, stop) ==
  [ticker |-> ticker, buyPrice |-> buy, sellPrice |-> sell, trailingStopPct |-> stop]
Div(id, date, ticker, vps) ==
  [id |-> id, date |-> date, ticker |-> ticker, valuePerShare |-> vps]

\* The demo portfolio the mount effect creates when storage is empty.
demo ==
  [id |-> "demo", name |-> "Portfolio Principal",
   transactions |-> << Tx(1, Today, "PETR4", "BUY", Num(100), Rat(375, 10), Undef),
                       Tx(2, Today, "VALE3", "BUY", Num(20), Rat(622, 10), Undef) >>,
   prices   |-> << Quote("PETR4", Rat(381, 10)), Quote("VALE3", Rat(618, 10)) >>,
   triggers |-> << Trig("PETR4", Num(37), Num(42), Num(8)),
                   Trig("VALE3", Num(60), Num(68), Undef) >>,
   dividends |-> << Div(3, Today, "PETR4", Rat(75, 100)) >>,
   history |-> <<>>]

\* A portfolio as newPortfolio creates it, loaded back from storage.
emptyPortfolio ==
  [id |-> "p1", name |-> "Portfolio 1", transactions |-> <<>>, prices |-> <<>>,
   triggers |-> <<>>, dividends |-> <<>>, history |-> <<>>]

\* A stored portfolio that holds two quotes of one ticker.
duplicateQuotes ==
  [id |-> "p2", name |-> "Portfolio 2", transactions |-> <<>>,
   prices |-> << Quote("PETR4", Num(30)), Quote("PETR4", Num(50)) >>,
   triggers |-> <<>>, dividends |-> <<>>, history |-> <<>>]

\* A stored portfolio whose transaction carries no fees field, as the demo's
\* transactions do.
noFeesPortfolio ==
  [id |-> "p3", name |-> "Portfolio 3",
   transactions |-> << Tx(1, Today, "PETR4", "BUY", Num(2), Num(10), Undef) >>,
   prices |-> << Quote("PETR4", Num(12)) >>,
   triggers |-> <<>>, dividends |-> <<>>, history |-> <<>>]

\* The first id uid() hands out after the ids 1..3 of the demo portfolio.
FirstId == 4

\* The state after the mount effect, for a stored collection of one portfolio
\* (or the demo portfolio when storage is empty).
InitWith(docs) ==
  /\ \E p \in docs : data = <<p>> /\ sel = p.id
  /\ nextId = FirstId
  /\ csvText = EmptyText
  /\ saved = saveAll(data)
  /\ remoteIdle

----------------------------------------------------------------------------
(* SpecFold: the cost-basis fold of aggregatePositions, driven by addTx *)

MaxFoldAdds == 3

\* What the transaction form can submit for one ticker: quantities below and
\* above 1, two prices, fees 0 or 1.
FoldTxInputs ==
  { [date |-> Today, ticker |-> "PETR4", type |-> ty, qty |-> q, price |-> pr, fees |-> f] :
      ty \in {"BUY", "SELL"}, q \in {Rat(1, 2), Num(2)}, pr \in {Num(10)}, f \in {Zero, Num(1)} }
  \cup
  { [date |-> Today, ticker |-> "PETR4", type |-> "BUY", qty |-> Num(2), price |-> Num(30),
     fees |-> Zero],
    [date |-> Today, ticker |-> "VALE3", type |-> "SELL", qty |-> Num(5), price |-> Num(60),
     fees |-> Num(1)] }

InitFold == InitWith({noFeesPortfolio, emptyPortfolio})

NextFold ==
  \E tx \in FoldTxInputs : nextId < FirstId + MaxFoldAdds /\ addTx(tx)

SpecFold == InitFold /\ [][NextFold]_vars

\* The portfolio p with only its first k transactions.
prefixOf(p, k) == [p EXCEPT !.transactions = SubSeq(p.transactions, 1, k)]

hasPosition(ps, ticker) == \E i \in 1..Len(ps) : ps[i].ticker = ticker
positionOf(ps, ticker)  == ps[CHOOSE i \in 1..Len(ps) : ps[i].ticker = ticker]

\* qty and invested of a ticker, (0, 0) for a ticker without Position.
heldOf(p, ticker) ==
  LET ps == aggregatePositions(p)
  IN  IF hasPosition(ps, ticker)
      THEN [qty |-> positionOf(ps, ticker).qty, cost |-> positionOf(ps, ticker).invested]
      ELSE [qty |-> Zero, cost |-> Zero]

RECURSIVE SumQty(_)
SumQty(list) == IF list = <<>> THEN Zero ELSE RAdd(Head(list).qty, SumQty(Tail(list)))

RECURSIVE SumBuyCost(_)
SumBuyCost(list) ==
  IF list = <<>> THEN Zero
  ELSE LET t == Head(list)
           f == IF t.fees = Undef THEN Zero ELSE t.fees
       IN  RAdd(RAdd(RMul(t.qty, t.price), f), SumBuyCost(Tail(list)))

BuyOnly(list) == list # <<>> /\ \A i \in 1..Len(list) : list[i].type = "BUY"

\* C1: after every prefix of the stored transactions, every ticker whose
\* transactions so far are all BUY has a Position with qty = sum of qty and
\* invested = sum of qty * price + fees (absent fees counting 0), exactly.
C1_BuyOnlySums ==
  hasCurrent =>
    \A k \in 0..Len(current.transactions) : \A ticker \in Tickers :
      LET p    == prefixOf(current, k)
          list == txByTicker(p.transactions, ticker)
          ps   == aggregatePositions(p)
      IN  BuyOnly(list) =>
            /\ hasPosition(ps, ticker)
            /\ positionOf(ps, ticker).qty = SumQty(list)
            /\ positionOf(ps, ticker).invested = SumBuyCost(list)

\* A BUY-only list of three purchases, one without a fees field and one with
\* non-zero fees.
C1_Witness ==
  /\ hasCurrent
  /\ LET list == txByTicker(current.transactions, "PETR4")
     IN  /\ BuyOnly(list) /\ Len(list) = 3
         /\ \E i \in 1..3 : list[i].fees = Undef
         /\ \E i \in 1..3 : list[i].fees = Num(1)
         /\ \E i \in 1..3 : list[i].qty = Rat(1, 2)

\* The SELL steps of the stored transactions: k such that transaction k is a
\* SELL, with the ticker's holding before and after it.
sellSteps(p) == { k \in 1..Len(p.transactions) : p.transactions[k].type = "SELL" }
beforeStep(p, k) == heldOf(prefixOf(p, k - 1), p.transactions[k].ticker)
afterStep(p, k)  == heldOf(prefixOf(p, k), p.transactions[k].ticker)
avgOf(h) == IF RGt(h.qty, Zero) THEN RDiv(h.cost, h.qty) ELSE Zero

\* C2 (as stated): every sell leaves the average price unchanged, sells with
\* non-zero fees included.
C2_AvgUnchangedByEverySell ==
  hasCurrent =>
    \A k \in sellSteps(current) :
      LET b == beforeStep(current, k)
          a == afterStep(current, k)
      IN  (RGt(b.qty, Zero) /\ RGt(a.qty, Zero)) => avgOf(a) = avgOf(b)

\* C2 (amended): a SELL of q shares removes exactly (average before) * q from
\* the cost and adds the sell's fees; when shares remain, the average after
\* the sell is the average before plus fees / remaining qty, so it is
\* unchanged exactly when the sell carries no fees.
C2_SellStep ==
  hasCurrent =>
    \A k \in sellSteps(current) :
      LET t == current.transactions[k]
          f == IF t.fees = Undef THEN Zero ELSE t.fees
          b == beforeStep(current, k)
          a == afterStep(current, k)
      IN  /\ a.qty = RSub(b.qty, t.qty)
          /\ a.cost = RAdd(RSub(b.cost, RMul(avgOf(b), t.qty)), f)
          /\ RGt(a.qty, Zero) =>
               /\ avgOf(a) = RAdd(avgOf(b), RDiv(f, a.qty))
               /\ (f = Zero => avgOf(a) = avgOf(b))
               /\ (f # Zero => avgOf(a) # avgOf(b))

\* A sell without fees and a sell with fees, each leaving shares, after
\* purchases at two different prices.
C2_Witness ==
  /\ hasCurrent
  /\ \E k \in sellSteps(current) :
       /\ current.transactions[k].fees = Num(1)
       /\ RGt(afterStep(current, k).qty, Zero)
       /\ avgOf(beforeStep(current, k)) # current.transactions[k].price
  /\ \E k \in sellSteps(current) :
       /\ current.transactions[k].fees = Zero
       /\ RGt(afterStep(current, k).qty, Zero)

\* C6: avgPrice = invested / qty when qty > 0 (quantities below 1 included),
\* avgPrice = 0 when qty <= 0, and no division by zero.
C6_AvgPrice ==
  \A i \in 1..Len(positions) :
    LET x == positions[i]
    IN  /\ IsNum(x.avgPrice)
        /\ RGt(x.qty, Zero) => x.avgPrice = RDiv(x.invested, x.qty)
        /\ ~RGt(x.qty, Zero) => x.avgPrice = Zero

----------------------------------------------------------------------------
(* SpecQuotes: quotes, triggers and the signal, with transactions added and
   removed *)

MaxQuoteAdds == 1

\* What the price form can submit: a positive price.
QuotePrices == {Num(30), Num(50)}

\* What the trigger form submits: every threshold, undefined when left blank.
TriggerInputs ==
  { [buyPrice |-> Num(40), sellPrice |-> Num(30), trailingStopPct |-> Undef],
    [buyPrice |-> Num(40), sellPrice |-> Num(30), trailingStopPct |-> Num(8)],
    [buyPrice |-> Undef,   sellPrice |-> Num(30), trailingStopPct |-> Undef],
    [buyPrice |-> Undef,   sellPrice |-> Undef,   trailingStopPct |-> Zero] }

QuoteTxInputs ==
  { [date |-> Today, ticker |-> "VALE3", type |-> "BUY", qty |-> Num(2), price |-> Num(40),
     fees |-> Zero] }

InitQuotes == InitWith({demo, emptyPortfolio, duplicateQuotes})

QuotesSetPrice == \E ticker \in Tickers, price \in QuotePrices : setPrice(ticker, price)

\* The trigger form offers the tickers of the positions.
QuotesSetTrigger ==
  \E i \in 1..Len(positions), tr \in TriggerInputs : setTrigger(positions[i].ticker, tr)

QuotesAddTx ==
  \E tx \in QuoteTxInputs : nextId < FirstId + MaxQuoteAdds /\ addTx(tx)

QuotesRemoveTx ==
  hasCurrent /\ \E i \in 1..Len(current.transactions) : removeTx(current.transactions[i].id)

NextQuotes == QuotesSetPrice \/ QuotesSetTrigger \/ QuotesAddTx \/ QuotesRemoveTx

SpecQuotes == InitQuotes /\ [][NextQuotes]_vars

hasTx(p, ticker)      == \E i \in 1..Len(p.transactions) : p.transactions[i].ticker = ticker
hasQuote(p, ticker)   == \E i \in 1..Len(p.prices) : p.prices[i].ticker = ticker
hasTrigger(p, ticker) == \E i \in 1..Len(p.triggers) : p.triggers[i].ticker = ticker

\* The trigger conditions of a Position, read off its own fields.
buyMatches(x) ==
  x.trigger # <<>> /\ IsNum(x.trigger[1].buyPrice) /\ RLe(x.lastPrice, x.trigger[1].buyPrice)
sellMatches(x) ==
  x.trigger # <<>> /\ IsNum(x.trigger[1].sellPrice) /\ RGe(x.lastPrice, x.trigger[1].sellPrice)
stopMatches(x) ==
  /\ x.trigger # <<>> /\ IsNum(x.trigger[1].trailingStopPct)
  /\ RGt(x.trigger[1].trailingStopPct, Zero)
  /\ RGt(x.lastPrice, Zero)
  /\ RLe(x.plPct, RNeg(x.trigger[1].trailingStopPct))

\* C3: for every Position, with or without transactions, when the buyPrice
\* and the sellPrice conditions both match and the stop condition does not,
\* the signal is SELL.
C3_SellOverridesBuy ==
  \A i \in 1..Len(positions) :
    LET x == positions[i]
    IN  (buyMatches(x) /\ sellMatches(x) /\ ~stopMatches(x)) => x.signal = "SELL"

\* C4: a Position of a ticker with transactions has signal STOP exactly when
\* trailingStopPct is set and > 0, lastPrice > 0 and plPct <= -trailingStopPct,
\* whatever the buyPrice and sellPrice conditions; a Position of a ticker
\* without transactions never has signal STOP.
C4_StopPrecedence ==
  hasCurrent =>
    \A i \in 1..Len(positions) :
      LET x == positions[i]
      IN  IF hasTx(current, x.ticker)
          THEN (x.signal = "STOP") <=> stopMatches(x)
          ELSE x.signal # "STOP"

\* A STOP signal on a Position whose buyPrice and sellPrice conditions both
\* match as well, and a Position whose stop threshold is 0.
C4_Witness ==
  /\ hasCurrent
  /\ \E i \in 1..Len(positions) :
       LET x == positions[i]
       IN  /\ hasTx(current, x.ticker) /\ x.signal = "STOP"
           /\ buyMatches(x) /\ sellMatches(x)
  /\ \E i \in 1..Len(positions) :
       LET x == positions[i]
       IN  /\ hasTx(current, x.ticker) /\ x.trigger # <<>>
           /\ x.trigger[1].trailingStopPct = Zero /\ RLt(x.plPct, Zero)

countPositions(ps, ticker) == Cardinality({ i \in 1..Len(ps) : ps[i].ticker = ticker })

\* C5, first half: exactly one Position per ticker of transactions or
\* prices, and none for any other ticker.
OnePositionPerTicker(p) ==
  LET ps == aggregatePositions(p)
  IN  /\ \A ticker \in Tickers :
           countPositions(ps, ticker) =
             IF hasTx(p, ticker) \/ hasQuote(p, ticker) THEN 1 ELSE 0
      /\ \A i \in 1..Len(ps) : ps[i].ticker \in Tickers

uniqueQuotes(p) ==
  \A i, j \in 1..Len(p.prices) : p.prices[i].ticker = p.prices[j].ticker => i = j

\* The quotes of a ticker, in stored order.
quotesOf(p, ticker) == SelectSeq(p.prices, LAMBDA x : x.ticker = ticker)

\* The lastPrice a Position must show: the ticker's quote, 0 without one.
quotedPrice(p, ticker) ==
  IF hasQuote(p, ticker) THEN quotesOf(p, ticker)[1].price ELSE Zero

----------------------------------------------------------------------------
(* SpecPrices: setPrice between the commands that add and remove
   transactions *)

\* What the price form can submit: a positive price.
PriceFormPrices == {Num(30), Num(40), Num(50)}

InitPrices == InitWith({demo, emptyPortfolio, duplicateQuotes})

PricesSetPrice == \E ticker \in Tickers, price \in PriceFormPrices : setPrice(ticker, price)

NextPrices == PricesSetPrice \/ QuotesAddTx \/ QuotesRemoveTx

SpecPrices == InitPrices /\ [][NextPrices]_vars

\* C10: from a portfolio with at most one quote per ticker, every step keeps
\* at most one quote per ticker; a setPrice step leaves the ticker's quote at
\* the price given and the quotes of the other tickers as they were; a step
\* that is no setPrice leaves the quotes as they were; and each Position's
\* lastPrice is the price of its ticker's quote, 0 when it has none.
C10_LatestQuoteWins ==
  [][ LET p == data[findPortfolio(data, sel, 1)]
          q == data'[findPortfolio(data', sel', 1)]
      IN  (hasCurrent /\ uniqueQuotes(p)) =>
            /\ findPortfolio(data', sel', 1) # 0
            /\ uniqueQuotes(q)
            /\ \A ticker \in Tickers, price \in PriceFormPrices :
                 setPrice(ticker, price) =>
                   /\ quotesOf(q, ticker) = << Quote(ticker, price) >>
                   /\ \A other \in Tickers \ {ticker} :
                        quotesOf(q, other) = quotesOf(p, other)
            /\ (\E ticker \in Tickers, price \in PriceFormPrices : setPrice(ticker, price))
                 \/ q.prices = p.prices
            /\ \A i \in 1..Len(positions) :
                 positions[i].lastPrice = quotedPrice(p, positions[i].ticker)
    ]_vars

\* setPrice has replaced the demo's PETR4 quote in place, next to the
\* untouched VALE3 quote, and the PETR4 Position shows the new price; the
\* VALE3 transaction is removed and its Position still shows the quote.
C10_Witness ==
  /\ hasCurrent /\ sel = "demo"
  /\ current.prices = << Quote("PETR4", Num(30)), Quote("VALE3", Rat(618, 10)) >>
  /\ hasTx(current, "PETR4") /\ ~hasTx(current, "VALE3")
  /\ positionOf(positions, "PETR4").lastPrice = Num(30)
  /\ positionOf(positions, "VALE3").lastPrice = Rat(618, 10)

----------------------------------------------------------------------------
(* The dividend ledger of the "Dividendos" tab *)

\* a.date.localeCompare(b.date) < 0 on date strings; the empty string sorts
\* first.
dateCompareLt(a, b) == a < b

RECURSIVE sortInsertByDate(_, _)
sortInsertByDate(s, x) ==
  IF s = <<>> THEN <<x>>
  ELSE IF dateCompareLt(x.date, s[Len(s)].date)
       THEN Append(sortInsertByDate(SubSeq(s, 1, Len(s) - 1), x), s[Len(s)])
       ELSE Append(s, x)

RECURSIVE sortByDate(_, _)
sortByDate(s, k) ==
  IF k = 0 THEN <<>> ELSE sortInsertByDate(sortByDate(s, k - 1), s[k])

\* The rows of the ledger: the dividends by date, each with the shares held
\* at its date and its total.
ledgerRows(p) ==
  LET sorted == sortByDate(p.dividends, Len(p.dividends))
  IN  [i \in 1..Len(sorted) |->
         LET d == sorted[i]
             q == shareCountAtDate(p.transactions, d.ticker, d.date)
         IN  [id |-> d.id, date |-> d.date, ticker |-> d.ticker, q |-> q,
              total |-> RMul(q, d.valuePerShare)]]

----------------------------------------------------------------------------
(* SpecDivs: dated transactions and dividends *)

MaxDivAdds == 3
MaxDay == 3
Dates == 0..MaxDay

\* Purchases and sales of PETR4 on an unparseable date, day 1 and day 3, and
\* a purchase of VALE3.
DivTxInputs ==
  { [date |-> d, ticker |-> "PETR4", type |-> "BUY", qty |-> Num(3), price |-> Num(10),
     fees |-> Zero] : d \in {InvalidDate, 1, 3} }
  \cup
  { [date |-> d, ticker |-> "PETR4", type |-> "SELL", qty |-> Num(2), price |-> Num(10),
     fees |-> Zero] : d \in {InvalidDate, 1, 3} }
  \cup
  { [date |-> 1, ticker |-> "VALE3", type |-> "BUY", qty |-> Num(3), price |-> Num(10),
     fees |-> Zero] }

DividendInputs ==
  { [date |-> d, ticker |-> "PETR4", valuePerShare |-> Rat(1, 2)] : d \in {InvalidDate, 1, 3} }
  \cup
  { [date |-> Today, ticker |-> "VALE3", valuePerShare |-> Num(1)] }

InitDivs == InitWith({demo, emptyPortfolio})

DivsAddTx ==
  \E tx \in DivTxInputs : nextId < FirstId + MaxDivAdds /\ addTx(tx)

DivsAddDividend ==
  \E d1 \in DividendInputs : nextId < FirstId + MaxDivAdds /\ addDividend(d1)

NextDivs == DivsAddTx \/ DivsAddDividend

SpecDivs == InitDivs /\ [][NextDivs]_vars

RECURSIVE SignedSum(_)
SignedSum(list) ==
  IF list = <<>> THEN Zero
  ELSE LET t == Head(list)
       IN  RAdd(IF t.type = "BUY" THEN t.qty ELSE RNeg(t.qty), SignedSum(Tail(list)))

ClampAtZero(x) == IF x.n < 0 THEN Zero ELSE x

\* C7 (as stated): the result is max(0, signed sum over the ticker's
\* transactions dated on or before date), a transaction dated equal to date
\* included.
C7_EqualDatesIncluded ==
  hasCurrent =>
    \A ticker \in Tickers, date \in Dates :
      LET onOrBefore == SelectSeq(current.transactions,
                          LAMBDA t : /\ t.ticker = ticker
                                     /\ \/ t.date = date
                                        \/ (DateValid(t.date) /\ DateValid(date)
                                              /\ t.date < date))
      IN  shareCountAtDate(current.transactions, ticker, date)
            = ClampAtZero(SignedSum(onOrBefore))

\* C7 (amended): the result is max(0, signed sum over exactly the ticker's
\* transactions whose date parses and is on or before date), equal dates
\* included; other tickers, later dates and unparseable dates never
\* contribute; the result is 0 when date does not parse; it is never negative.
C7_ShareCount ==
  hasCurrent =>
    \A ticker \in Tickers, date \in Dates :
      LET counted == SelectSeq(current.transactions,
                       LAMBDA t : /\ t.ticker = ticker
                                  /\ t.date # InvalidDate /\ date # InvalidDate
                                  /\ (t.date = date \/ t.date < date))
          result  == shareCountAtDate(current.transactions, ticker, date)
      IN  /\ result = ClampAtZero(SignedSum(counted))
          /\ result.d > 0 /\ result.n >= 0
          /\ date = InvalidDate => result = Zero

\* PETR4 bought on day 1, traded again on day 3 and on an unparseable date,
\* next to the demo's purchases of PETR4 on day 2 and of VALE3: the count at
\* day 1 includes the purchase of that day only.
C7_Witness ==
  /\ hasCurrent /\ sel = "demo"
  /\ shareCountAtDate(current.transactions, "PETR4", 1) = Num(3)
  /\ \E i \in 1..Len(current.transactions) :
       current.transactions[i].ticker = "PETR4" /\ current.transactions[i].date = 3
  /\ \E i \in 1..Len(current.transactions) :
       current.transactions[i].ticker = "PETR4" /\ current.transactions[i].date = InvalidDate
  /\ hasTx(current, "VALE3")

\* C8 (as stated): for all dates d1 <= d2 the count at d1 is at most the
\* count at d2.
C8_NonDecreasing ==
  hasCurrent =>
    \A ticker \in Tickers, d1 \in 1..MaxDay, d2 \in 1..MaxDay :
      d1 <= d2 =>
        RLe(shareCountAtDate(current.transactions, ticker, d1),
            shareCountAtDate(current.transactions, ticker, d2))

sellBetween(p, ticker, d1, d2) ==
  \E i \in 1..Len(p.transactions) :
    LET t == p.transactions[i]
    IN  t.ticker = ticker /\ t.type = "SELL" /\ d1 < t.date /\ t.date <= d2

\* C8 (amended): for all dates d1 <= d2 such that the ticker has no SELL
\* dated after d1 and on or before d2, the count at d1 is at most the count
\* at d2.
C8_NonDecreasingWithoutSell ==
  hasCurrent =>
    \A ticker \in Tickers, d1 \in 1..MaxDay, d2 \in 1..MaxDay :
      (d1 <= d2 /\ ~sellBetween(current, ticker, d1, d2)) =>
        RLe(shareCountAtDate(current.transactions, ticker, d1),
            shareCountAtDate(current.transactions, ticker, d2))

\* A sale on day 1 and purchases on day 1 and on day 3: the count rises from
\* day 1 to day 3.
C8_Witness ==
  /\ hasCurrent
  /\ ~sellBetween(current, "PETR4", 1, 3)
  /\ \E i \in 1..Len(current.transactions) :
       LET t == current.transactions[i]
       IN  t.ticker = "PETR4" /\ t.type = "SELL" /\ t.date = 1
  /\ RLt(Zero, shareCountAtDate(current.transactions, "PETR4", 1))
  /\ RLt(shareCountAtDate(current.transactions, "PETR4", 1),
         shareCountAtDate(current.transactions, "PETR4", 3))

RECURSIVE SumTotals(_, _)
SumTotals(rows, ticker) ==
  IF rows = <<>> THEN Zero
  ELSE RAdd(IF Head(rows).ticker = ticker THEN Head(rows).total ELSE Zero,
            SumTotals(Tail(rows), ticker))

\* C9: every Position's divsTotal is the sum of the totals of the ledger rows
\* of its ticker, each row being shareCountAtDate(all transactions, ticker,
\* entry date) * valuePerShare; divYieldOnCost is divsTotal / invested when
\* invested > 0, else 0.
C9_DividendTotals ==
  hasCurrent =>
    LET rows == ledgerRows(current)
    IN  /\ \A i \in 1..Len(rows) :
             \E j \in 1..Len(current.dividends) :
               LET e == current.dividends[j]
               IN  /\ e.id = rows[i].id
                   /\ rows[i].total =
                        RMul(shareCountAtDate(current.transactions, e.ticker, e.date),
                             e.valuePerShare)
        /\ \A i \in 1..Len(positions) :
             LET x == positions[i]
             IN  /\ x.divsTotal = SumTotals(rows, x.ticker)
                 /\ x.divYieldOnCost =
                      IF x.invested.n > 0 THEN RDiv(x.divsTotal, x.invested) ELSE Zero

\* A Position with two dividend entries paid on different share counts, and
\* a positive yield on cost.
C9_Witness ==
  /\ hasCurrent
  /\ LET rows == ledgerRows(current)
     IN  \E i, j \in 1..Len(rows) :
           /\ rows[i].ticker = "PETR4" /\ rows[j].ticker = "PETR4"
           /\ RLt(Zero, rows[i].q) /\ RLt(rows[i].q, rows[j].q)
  /\ RLt(Zero, positionOf(positions, "PETR4").divYieldOnCost)

----------------------------------------------------------------------------
(* setTrigger as the trigger form calls it *)

TriggerFields == {"buyPrice", "sellPrice", "trailingStopPct"}

\* C11: a setTrigger step leaves at most one trigger for the ticker, every
\* field the form filled takes the value given, and every field the form
\* left blank keeps the value stored before the step.
C11_BlankKeepsStored ==
  [][ LET p == data[findPortfolio(data, sel, 1)]
          q == data'[findPortfolio(data', sel', 1)]
      IN  \A tick \in Tickers, tr \in TriggerInputs :
            (setTrigger(tick, tr) /\ hasTrigger(p, tick)) =>
              LET old == trigFind(p.triggers, tick, 1)[1]
                  new == trigFind(q.triggers, tick, 1)[1]
              IN  /\ Cardinality({ i \in 1..Len(q.triggers) : q.triggers[i].ticker = tick }) = 1
                  /\ \A f \in TriggerFields :
                       new[f] = IF tr[f] = Undef THEN old[f] ELSE tr[f]
    ]_vars

----------------------------------------------------------------------------
(* Portfolio commands, the history row and the reload of the page *)

\* newPortfolio(): name is what prompt returned, "" for a cancelled prompt.
newPortfolio(name) ==
  /\ name # ""
  /\ LET p == [id |-> ToString(nextId), name |-> name, transactions |-> <<>>,
               prices |-> <<>>, triggers |-> <<>>, dividends |-> <<>>, history |-> <<>>]
     IN  data' = Append(data, p) /\ sel' = p.id
  /\ nextId' = nextId + 1
  /\ persist
  /\ UNCHANGED csvText
  /\ UNCHANGED remoteVars

renamePortfolio(name) ==
  /\ hasCurrent
  /\ name # ""
  /\ data' = [i \in 1..Len(data) |->
               IF data[i].id = current.id THEN [data[i] EXCEPT !.name = name] ELSE data[i]]
  /\ persist
  /\ UNCHANGED <<sel, nextId>>
  /\ UNCHANGED csvText
  /\ UNCHANGED remoteVars

\* deletePortfolio with the selection left as it was.
deletePortfolioKeepsSel ==
  /\ hasCurrent
  /\ LET rest == SelectSeq(data, LAMBDA p : p.id # current.id)
     IN  data' = rest /\ sel' = sel
  /\ persist
  /\ UNCHANGED nextId
  /\ UNCHANGED csvText
  /\ UNCHANGED remoteVars

\* deletePortfolio(), confirmed.
deletePortfolio ==
  /\ hasCurrent
  /\ LET rest == SelectSeq(data, LAMBDA p : p.id # current.id)
     IN  data' = rest /\ sel' = IF Len(rest) > 0 THEN rest[1].id ELSE ""
  /\ persist
  /\ UNCHANGED nextId
  /\ UNCHANGED csvText
  /\ UNCHANGED remoteVars

\* onChange of the portfolio select: the options are the portfolios of data.
selectPortfolio(id) ==
  /\ \E i \in 1..Len(data) : data[i].id = id
  /\ sel' = id
  /\ UNCHANGED <<data, saved, nextId>>
  /\ UNCHANGED csvText
  /\ UNCHANGED remoteVars

\* addHistory with the row appended to every portfolio.
addHistoryEverywhere(row) ==
  /\ hasCurrent
  /\ data' = [i \in 1..Len(data) |-> [data[i] EXCEPT !.history = Append(@, row)]]
  /\ persist
  /\ UNCHANGED <<sel, nextId>>
  /\ UNCHANGED csvText
  /\ UNCHANGED remoteVars

\* onAdd(row) of the history form.
addHistory(row) ==
  /\ hasCurrent
  /\ data' = [i \in 1..Len(data) |->
               IF data[i].id = current.id
               THEN [data[i] EXCEPT !.history = Append(@, row)]
               ELSE data[i]]
  /\ persist
  /\ UNCHANGED <<sel, nextId>>
  /\ UNCHANGED csvText
  /\ UNCHANGED remoteVars

\* A reload of the page: the mount effect, then the effect on [data].
reload ==
  /\ LET loaded == loadAll
     IN  IF Len(loaded) = 0
         THEN data' = <<demo>> /\ sel' = demo.id
         ELSE data' = loaded /\ sel' = loaded[1].id
  /\ persist
  /\ csvText' = EmptyText
  /\ UNCHANGED nextId
  /\ UNCHANGED remoteVars

----------------------------------------------------------------------------
(* SpecPersist: every command of the component, and the reload *)

MaxPersistAdds == 1

PortfolioNames == {"Reserva"}
PersistTxInputs ==
  { [date |-> Today, ticker |-> "PETR4", type |-> "BUY", qty |-> Num(1), price |-> Num(30),
     fees |-> Zero] }
PersistDividendInputs == { [date |-> Today, ticker |-> "PETR4", valuePerShare |-> Num(1)] }
PersistHistoryInputs == { [date |-> Today, totalValue |-> Num(100)] }
PersistTriggerInputs == { [buyPrice |-> Num(40), sellPrice |-> Undef, trailingStopPct |-> Undef] }

InitPersist == InitWith({demo, emptyPortfolio})

PersistNew == \E name \in PortfolioNames : nextId < FirstId + MaxPersistAdds /\ newPortfolio(name)
PersistRename == \E name \in PortfolioNames : renamePortfolio(name)
PersistDelete == deletePortfolio
PersistReload == reload
PersistSelect == \E i \in 1..Len(data) : selectPortfolio(data[i].id)
PersistAddTx == \E tx \in PersistTxInputs : nextId < FirstId + MaxPersistAdds /\ addTx(tx)
PersistRemoveTx ==
  hasCurrent /\ \E i \in 1..Len(current.transactions) : removeTx(current.transactions[i].id)
PersistSetPrice == setPrice("PETR4", Num(30))
PersistSetTrigger == \E tr \in PersistTriggerInputs : setTrigger("PETR4", tr)
PersistAddDividend ==
  \E d1 \in PersistDividendInputs : nextId < FirstId + MaxPersistAdds /\ addDividend(d1)
PersistRemoveDividend ==
  hasCurrent /\ \E i \in 1..Len(current.dividends) : removeDividend(current.dividends[i].id)
PersistAddHistory ==
  \E row \in PersistHistoryInputs :
    hasCurrent /\ Len(current.history) < MaxPersistAdds /\ addHistory(row)

NextPersist ==
  \/ PersistNew \/ PersistRename \/ PersistDelete \/ PersistReload \/ PersistSelect
  \/ PersistAddTx \/ PersistRemoveTx \/ PersistSetPrice \/ PersistSetTrigger
  \/ PersistAddDividend \/ PersistRemoveDividend \/ PersistAddHistory

SpecPersist == InitPersist /\ [][NextPersist]_vars

\* C12: after every command, once the effect that persists has run, the
\* collection held in local storage is the collection in memory.
C12_StorageEqualsMemory == saved = saveAll(data)

----------------------------------------------------------------------------
(* SpecRemote: two clients of the API route, every setting present *)

MaxRequests == 1

StoredFiles == {NoFile, [exists |-> TRUE, content |-> "docA", rev |-> 0]}

\* The component plays no part in the route: it holds nothing.
uiIdle ==
  data = <<>> /\ sel = "" /\ nextId = FirstId /\ csvText = EmptyText /\ saved = <<>>

InitRemote ==
  /\ uiIdle
  /\ env = EnvNames
  /\ file \in StoredFiles
  /\ req = [c \in Clients |-> idleRequest]
  /\ seen = [c \in Clients |-> 0]

RemoteGet == \E c \in Clients, fault \in Faults : req[c].n < MaxRequests /\ GET(c, fault)
RemotePutReceive ==
  \E c \in Clients, body \in Bodies : req[c].n < MaxRequests /\ PutReceive(c, body)
RemotePutFetch == \E c \in Clients, fault \in Faults : PutFetch(c, fault)
RemotePutWrite == \E c \in Clients, fault \in Faults : PutWrite(c, fault)

NextRemote == RemoteGet \/ RemotePutReceive \/ RemotePutFetch \/ RemotePutWrite

SpecRemote == InitRemote /\ [][NextRemote]_vars

\* C13: a write of a client whose last fetched version of the document is
\* not the stored one (another write came after the client's fetch) is
\* rejected, with the conflict status 409 or another error status, and
\* leaves the stored document as it was.
C13_StaleWriteRejected ==
  [][ \A c \in Clients, fault \in Faults :
        (PutWrite(c, fault) /\ file.rev # req[c].based) =>
          (file' = file /\ ~IsOk(req'[c].status))
    ]_vars

\* The PUT requests that have been answered.
answeredPut(c) == req[c].method = "PUT" /\ req[c].pc = "idle" /\ req[c].status # 0

\* C14: an answered PUT whose body is JSON without a data field has status
\* 400 and sent nothing to the backend; one that failed has status 409 for a
\* conflict, 403 for a permission failure and 500 otherwise; and no request
\* made more than one write attempt.
C14_ErrorOutcomes ==
  \A c \in Clients :
    answeredPut(c) =>
      /\ (req[c].body.json # "invalid" /\ req[c].body.data = NoData) =>
           (req[c].status = 400 /\ req[c].fetches = 0 /\ req[c].writes = 0)
      /\ req[c].body.data # NoData =>
           req[c].status = CASE req[c].err = NoError -> 200
                             [] req[c].err.kind = "409 (conflict)" -> 409
                             [] req[c].err.kind = "Permissao negada" -> 403
                             [] OTHER -> 500
      /\ req[c].writes <= 1

\* The backend answers of a fetch that are no success and no 404.
FetchFailures == Faults \ {0}

\* C15: githubGetFile answers a 404 of the backend with the empty array and
\* no sha, and every other status that is no success with an error; a PUT
\* that fetched no sha writes without one, and the write creates the
\* document with the data of the body when the backend still holds no file.
C15_NotFoundIsEmpty ==
  [][ /\ \A fault \in Faults :
           LET r == githubGetFile(fault)
           IN  /\ contentsGetStatus(fault) = 404 =>
                    (r.err = NoError /\ r.json = EmptyArray /\ r.sha = NoSha)
               /\ fault \in FetchFailures => r.err # NoError
               /\ (r.err = NoError /\ r.sha = NoSha) => contentsGetStatus(fault) = 404
      /\ \A c \in Clients, fault \in Faults :
           PutFetch(c, fault) =>
             /\ contentsGetStatus(fault) = 404 =>
                  (req'[c].pc = "write" /\ req'[c].sha = NoSha)
             /\ fault \in FetchFailures =>
                  (req'[c].pc = "idle" /\ ~IsOk(req'[c].status))
      /\ \A c \in Clients :
           (PutWrite(c, 0) /\ req[c].sha = NoSha /\ ~file.exists) =>
             /\ file' = [exists |-> TRUE, content |-> req[c].body.data, rev |-> file.rev + 1]
             /\ req'[c].status = 200
    ]_vars

\* A PUT found no document, wrote without sha and created it; the GET of the
\* other client found no document and was answered with the empty array.
C15_Witness ==
  /\ \E c \in Clients :
       /\ answeredPut(c) /\ req[c].status = 200 /\ req[c].sha = NoSha
       /\ file = [exists |-> TRUE, content |-> req[c].body.data, rev |-> 1]
  /\ \E c \in Clients :
       /\ req[c].method = "GET" /\ req[c].status = 200 /\ req[c].json = EmptyArray
       /\ req[c].fetches = 1

----------------------------------------------------------------------------
(* SpecEnv: one client of the API route under every set of settings *)

EnvBodies == { [json |-> "object", data |-> "docB"] }

InitEnv ==
  /\ uiIdle
  /\ env \in SUBSET EnvNames
  /\ file \in StoredFiles
  /\ req = [c \in Clients |-> idleRequest]
  /\ seen = [c \in Clients |-> 0]

EnvGet == req[1].n < MaxRequests /\ GET(1, 0)
EnvPutReceive == \E body \in EnvBodies : req[1].n < MaxRequests /\ PutReceive(1, body)
EnvPutFetch == PutFetch(1, 0)
EnvPutWrite == PutWrite(1, 0)

NextEnv == EnvGet \/ EnvPutReceive \/ EnvPutFetch \/ EnvPutWrite

SpecEnv == InitEnv /\ [][NextEnv]_vars

\* The requests that were answered after the test of their body.
answered(c) ==
  /\ req[c].pc = "idle" /\ req[c].status # 0
  /\ req[c].err.kind \notin {"TypeError", "Missing 'data' field"}

Range(seq) == { seq[i] : i \in 1..Len(seq) }

RequiredEnvNames == {"GITHUB_OWNER", "GITHUB_REPO", "GITHUB_TOKEN"}

----------------------------------------------------------------------------
(* SpecScenario: the purchase, the sale and the quote of the worked example *)

MaxScenarioAdds == 2

ScenarioTxInputs ==
  { [date |-> Today, ticker |-> ticker, type |-> "BUY", qty |-> Num(100),
     price |-> Rat(3750, 100), fees |-> Zero] : ticker \in Tickers }
    \cup
  { [date |-> Today, ticker |-> ticker, type |-> "SELL", qty |-> Num(50),
     price |-> Rat(4020, 100), fees |-> Rat(110, 100)] : ticker \in Tickers }

ScenarioPrices == {Rat(3810, 100)}

InitScenario == InitWith({emptyPortfolio})

ScenarioAddTx == \E tx \in ScenarioTxInputs : nextId < FirstId + MaxScenarioAdds /\ addTx(tx)
ScenarioSetPrice == \E ticker \in Tickers, price \in ScenarioPrices : setPrice(ticker, price)

NextScenario == ScenarioAddTx \/ ScenarioSetPrice

SpecScenario == InitScenario /\ [][NextScenario]_vars

\* The transactions of a ticker without their ids.
dealsOf(p, ticker) ==
  LET list == txByTicker(p.transactions, ticker)
  IN  [i \in 1..Len(list) |->
         [type |-> list[i].type, qty |-> list[i].qty, price |-> list[i].price,
          fees |-> list[i].fees]]

scenarioHolds(ticker) ==
  /\ hasCurrent
  /\ dealsOf(current, ticker) =
       << [type |-> "BUY", qty |-> Num(100), price |-> Rat(3750, 100), fees |-> Zero],
          [type |-> "SELL", qty |-> Num(50), price |-> Rat(4020, 100),
           fees |-> Rat(110, 100)] >>
  /\ current.dividends = <<>>
  /\ quotesOf(current, ticker) = << Quote(ticker, Rat(3810, 100)) >>

\* C17: for a ticker with the transactions [BUY 100 @ 37.50 fee 0, SELL 50 @
\* 40.20 fee 1.10], no dividends and the quote 38.10, the Position has qty
\* 50, invested 1876.10, avgPrice 37.522, mktValue 1905 and pl 28.90.
C17_WorkedScenario ==
  \A ticker \in Tickers :
    scenarioHolds(ticker) =>
      LET x == positionOf(positions, ticker)
      IN  /\ x.qty = Num(50)
          /\ x.invested = Rat(187610, 100)
          /\ x.avgPrice = Rat(37522, 1000)
          /\ x.mktValue = Num(1905)
          /\ x.pl = Rat(2890, 100)

\* The scenario is the current portfolio's PETR4, and its Position is there.
C17_Witness ==
  /\ scenarioHolds("PETR4")
  /\ hasPosition(positions, "PETR4")
  /\ positionOf(positions, "PETR4").invested = Rat(187610, 100)

----------------------------------------------------------------------------
(* csvToTransactions and importCSV.  A CSV text is the sequence of its
   lines (split(/\r?\n/)) and a line the sequence of its cells (split(",")). *)

\* parts[i] for an index the row does not hold.
Missing == "(undefined)"

\* trim(), toLowerCase() and toUpperCase() on the cells the model uses; a
\* cell not listed is its own image.
trim(s) ==
  CASE s = " VALE3 " -> "VALE3"
    [] s = " Sell " -> "Sell"
    [] s = " ticker " -> "ticker"
    [] s = " " -> ""
    [] OTHER -> s

toLowerCase(s) ==
  CASE s = "Date" -> "date"
    [] s = " Ticker " -> " ticker "
    [] s = "TYPE" -> "type"
    [] s = "Qty" -> "qty"
    [] s = "PRICE" -> "price"
    [] s = "Fees" -> "fees"
    [] OTHER -> s

toUpperCase(s) ==
  CASE s = "petr4" -> "PETR4"
    [] s = "Sell" -> "SELL"
    [] s = "resell" -> "RESELL"
    [] OTHER -> s

\* Number(s) for a cell: blank text is 0, text that is no number is NaN.
Number(s) ==
  CASE s = "10" -> Num(10)
    [] s = "1" -> Num(1)
    [] s = "2.5" -> Rat(5, 2)
    [] s \in {"", " "} -> Zero
    [] OTHER -> NaNv

\* The day number of a date string, InvalidDate when it is no date.
dayOf(s) == IF s = "2024-01-05" THEN 1 ELSE InvalidDate

\* rows: the lines that are not empty after trim().
isBlank(line) == Len(line) = 0 \/ (Len(line) = 1 /\ trim(line[1]) = "")
csvRows(csv) == SelectSeq(csv, LAMBDA line : ~isBlank(line))

\* header: the first row, in lower case; no cell when there is no row.
csvHeader(rows) ==
  IF Len(rows) = 0 THEN <<>> ELSE [i \in 1..Len(rows[1]) |-> toLowerCase(rows[1][i])]

\* idx(name) reading the columns in the order date, ticker, type, qty, price,
\* fees whatever the header holds.
idxByPosition(header, name, i) ==
  CASE name = "date" -> 1 [] name = "ticker" -> 2 [] name = "type" -> 3
    [] name = "qty" -> 4 [] name = "price" -> 5
    [] OTHER -> IF Len(header) >= 6 THEN 6 ELSE 0

\* idx(name): the position of the first header cell that is name after
\* trim(), counted from 1; 0 stands for the -1 of findIndex.
RECURSIVE idx(_, _, _)
idx(header, name, i) ==
  IF i > Len(header) THEN 0
  ELSE IF trim(header[i]) = name THEN i
  ELSE idx(header, name, i + 1)

cellAt(parts, i) == IF i \in 1..Len(parts) THEN parts[i] ELSE Missing

\* parts[i]?.trim() || ""
trimmedOrEmpty(c) == IF c = Missing THEN "" ELSE trim(c)

\* Number(parts[i] || 0)
numberOrZero(c) == IF c = Missing \/ c = "" THEN Zero ELSE Number(c)

\* The transaction of one row, without its id; its ticker is "" when the
\* row is skipped.
rowToTx(header, parts) ==
  LET idDate  == idx(header, "date", 1)
      idTick  == idx(header, "ticker", 1)
      idType  == idx(header, "type", 1)
      idQty   == idx(header, "qty", 1)
      idPrice == idx(header, "price", 1)
      idFees  == idx(header, "fees", 1)
      dateStr == trimmedOrEmpty(cellAt(parts, idDate))
  IN  [date   |-> IF dateStr = "" THEN Today ELSE dayOf(dateStr),
       ticker |-> toUpperCase(trimmedOrEmpty(cellAt(parts, idTick))),
       type   |-> IF toUpperCase(trimmedOrEmpty(cellAt(parts, idType))) = "SELL"
                  THEN "SELL" ELSE "BUY",
       qty    |-> numberOrZero(cellAt(parts, idQty)),
       price  |-> numberOrZero(cellAt(parts, idPrice)),
       fees   |-> IF idFees # 0 THEN numberOrZero(cellAt(parts, idFees)) ELSE Zero]

\* The loop over the rows after the header; uid() hands out firstId onwards.
RECURSIVE csvLoop(_, _, _, _)
csvLoop(header, rows, k, firstId) ==
  IF k <= 1 THEN <<>>
  ELSE LET out == csvLoop(header, rows, k - 1, firstId)
           t   == rowToTx(header, rows[k])
       IN  IF t.ticker = "" THEN out
           ELSE Append(out, Tx(firstId + Len(out), t.date, t.ticker, t.type, t.qty,
                               t.price, t.fees))

csvToTransactions(csv, firstId) ==
  LET rows == csvRows(csv)
  IN  csvLoop(csvHeader(rows), rows, Len(rows), firstId)

\* onChange of the import box, and its "Limpar" button with the empty text.
setCsvText(text) ==
  /\ csvText' = text
  /\ UNCHANGED <<data, sel, nextId, saved>>
  /\ UNCHANGED remoteVars

\* importCSV(csvText); with nothing to import it alerts and changes nothing.
importCSV ==
  /\ hasCurrent
  /\ LET txs == csvToTransactions(csvText, nextId)
     IN  /\ Len(txs) > 0
         /\ data' = [i \in 1..Len(data) |->
                      IF data[i].id = current.id
                      THEN [data[i] EXCEPT !.transactions = @ \o txs]
                      ELSE data[i]]
         /\ nextId' = nextId + Len(txs)
  /\ persist
  /\ UNCHANGED <<sel, csvText>>
  /\ UNCHANGED remoteVars

----------------------------------------------------------------------------
(* SpecCsv: texts typed into the import box and imported *)

MaxImported == 1

\* Headers: the cells as written, and the column each one names.
CanonicalLayout ==
  [cells |-> <<"date", "ticker", "type", "qty", "price", "fees">>,
   cols  |-> <<"date", "ticker", "type", "qty", "price", "fees">>]
FullLayouts ==
  { CanonicalLayout,
    [cells |-> <<"Fees", "PRICE", "Qty", "TYPE", " Ticker ", "Date">>,
     cols  |-> <<"fees", "price", "qty", "type", "ticker", "date">>] }
NoFeesLayouts ==
  { [cells |-> <<"date", "ticker", "type", "qty", "price">>,
     cols  |-> <<"date", "ticker", "type", "qty", "price">>],
    [cells |-> <<"PRICE", " Ticker ", "Qty", "TYPE", "Date">>,
     cols  |-> <<"price", "ticker", "qty", "type", "date">>] }
Layouts == FullLayouts \cup NoFeesLayouts

\* Rows, by column.
LogicalRows ==
  [date : {"2024-01-05", ""}, ticker : {"petr4", " VALE3 ", " "},
   type : {" Sell ", "BUY", "resell"}, qty : {"10", "abc", ""}, price : {"2.5"},
   fees : {"1", "x"}]
FirstRow ==
  [date |-> "2024-01-05", ticker |-> "VALE3", type |-> "BUY", qty |-> "1",
   price |-> "2.5", fees |-> "1"]

lineOf(layout, row) == [i \in 1..Len(layout.cols) |-> row[layout.cols[i]]]

\* Header, an empty line, the first row and one more row.
csvOf(layout, row) ==
  << layout.cells, <<" ">>, lineOf(layout, FirstRow), lineOf(layout, row) >>

\* A text of the header alone, and one whose second row stops after the ticker.
HeaderOnly == << CanonicalLayout.cells >>
ShortRow ==
  << CanonicalLayout.cells, lineOf(CanonicalLayout, FirstRow), <<"2024-01-05", "petr4">> >>

CsvTexts ==
  { csvOf(layout, row) : layout \in Layouts, row \in LogicalRows }
    \cup {HeaderOnly, ShortRow}

InitCsv == InitWith({emptyPortfolio})

canImport == hasCurrent /\ Len(current.transactions) < MaxImported

CsvSetText == \E text \in CsvTexts \cup {EmptyText} : canImport /\ setCsvText(text)
CsvImport == canImport /\ importCSV

NextCsv == CsvSetText \/ CsvImport

SpecCsv == InitCsv /\ [][NextCsv]_vars

\* The transactions without their ids.
withoutIds(txs) ==
  [i \in 1..Len(txs) |-> [date |-> txs[i].date, ticker |-> txs[i].ticker,
                          type |-> txs[i].type, qty |-> txs[i].qty,
                          price |-> txs[i].price, fees |-> txs[i].fees]]

\* What the statement gives for a ticker cell and a type cell of the rows.
expectedTicker(cell) ==
  CASE cell = "petr4" -> "PETR4" [] cell = " VALE3 " -> "VALE3" [] cell = "VALE3" -> "VALE3"
    [] cell = " " -> ""
expectedType(cell) == IF cell = " Sell " THEN "SELL" ELSE "BUY"

\* The rows of a text built by csvOf that are not skipped.
keptRows(row) ==
  IF expectedTicker(row.ticker) = "" THEN <<FirstRow>> ELSE <<FirstRow, row>>

\* C18: an import of a text gives the transactions of the same rows under
\* the header date,ticker,type,qty,price,fees whatever the order and the
\* case of the header's columns; with no fees column every fees is 0 and the
\* other fields are as with the column; a row with a blank ticker is
\* skipped, the type is SELL for " Sell " and BUY otherwise, and the ticker
\* is in upper case.
C18_ColumnsByName ==
  [][ importCSV =>
        \A layout \in Layouts, row \in LogicalRows :
          csvText = csvOf(layout, row) =>
            LET txs  == withoutIds(SubSeq(current.transactions',
                                          Len(current.transactions) + 1,
                                          Len(current.transactions')))
                ref  == withoutIds(csvToTransactions(csvOf(CanonicalLayout, row), nextId))
                kept == keptRows(row)
            IN  /\ Len(txs) = Len(kept)
                /\ layout \in FullLayouts => txs = ref
                /\ layout \in NoFeesLayouts =>
                     txs = [i \in 1..Len(ref) |-> [ref[i] EXCEPT !.fees = Zero]]
                /\ \A i \in 1..Len(txs) :
                     /\ txs[i].ticker = expectedTicker(kept[i].ticker)
                     /\ txs[i].type = expectedType(kept[i].type)
    ]_vars

\* A text with the header PRICE, Ticker ,Qty,TYPE,Date was imported: its
\* second row, with the ticker " VALE3 " and the type " Sell ", became a SELL
\* of VALE3 with fees 0, after the first row.
C18_Witness ==
  /\ hasCurrent
  /\ csvText = << <<"PRICE", " Ticker ", "Qty", "TYPE", "Date">>, <<" ">>,
                  <<"2.5", "VALE3", "1", "BUY", "2024-01-05">>,
                  <<"2.5", " VALE3 ", "10", " Sell ", "">> >>
  /\ withoutIds(current.transactions) =
       << [date |-> 1, ticker |-> "VALE3", type |-> "BUY", qty |-> Num(1),
           price |-> Rat(5, 2), fees |-> Zero],
          [date |-> Today, ticker |-> "VALE3", type |-> "SELL", qty |-> Num(10),
           price |-> Rat(5, 2), fees |-> Zero] >>

\* C19: every imported transaction has numbers for qty, price and fees, and
\* a qty cell that is empty, missing or no number gives qty 0.
C19_NonNumericIsZero ==
  [][ importCSV =>
        LET txs == SubSeq(current.transactions', Len(current.transactions) + 1,
                          Len(current.transactions'))
        IN  /\ \A i \in 1..Len(txs) :
                 IsNum(txs[i].qty) /\ IsNum(txs[i].price) /\ IsNum(txs[i].fees)
            /\ \A layout \in Layouts, row \in LogicalRows :
                 (csvText = csvOf(layout, row) /\ Len(txs) = 2 /\ row.qty \in {"abc", ""}) =>
                   txs[2].qty = Zero
            /\ csvText = ShortRow => (Len(txs) = 2 /\ txs[2].qty = Zero)
    ]_vars

----------------------------------------------------------------------------
(* The totals, the allocation series and the signal list of the component *)

\* positions.reduce((s, x) => s + x[field], 0) over the first k positions.
RECURSIVE reduceSum(_, _, _)
reduceSum(ps, field, k) ==
  IF k = 0 THEN Zero ELSE RAdd(reduceSum(ps, field, k - 1), ps[k][field])

\* totals whose pl is taken from the first position alone.
totalsOfFirstPl(ps) ==
  LET invested == reduceSum(ps, "invested", Len(ps))
      mkt      == reduceSum(ps, "mktValue", Len(ps))
      pl       == IF Len(ps) = 0 THEN Zero ELSE ps[1].pl
  IN  [invested |-> invested, mkt |-> mkt, pl |-> pl,
       plPct |-> IF RGt(invested, Zero) THEN RMul(RDiv(pl, invested), Hundred) ELSE Zero,
       divs |-> reduceSum(ps, "divsTotal", Len(ps))]

totalsOf(ps) ==
  LET invested == reduceSum(ps, "invested", Len(ps))
      mkt      == reduceSum(ps, "mktValue", Len(ps))
      pl       == RSub(mkt, invested)
  IN  [invested |-> invested, mkt |-> mkt, pl |-> pl,
       plPct |-> IF RGt(invested, Zero) THEN RMul(RDiv(pl, invested), Hundred) ELSE Zero,
       divs |-> reduceSum(ps, "divsTotal", Len(ps))]

totals == totalsOf(positions)

\* Number(x.toFixed(2)) for a positive number: x rounded to two decimals.
toFixed2(x) == Rat((x.n * 200 + x.d) \div (2 * x.d), 100)

allocData ==
  LET shown == SelectSeq(positions, LAMBDA p : RGt(p.qty, Zero) /\ RGt(p.mktValue, Zero))
  IN  [i \in 1..Len(shown) |-> [name |-> shown[i].ticker, value |-> toFixed2(shown[i].mktValue)]]

triggerSignals == SelectSeq(positions, LAMBDA p : p.signal # "HOLD")

\* The sum of a field over the positions from position i on.
RECURSIVE SumFrom(_, _, _)
SumFrom(ps, field, i) ==
  IF i > Len(ps) THEN Zero ELSE RAdd(ps[i][field], SumFrom(ps, field, i + 1))

\* The tickers of a list, in order.
tickersOf(list, key) == [i \in 1..Len(list) |-> list[i][key]]

\* The sublist of the positions whose index is in a set.
RECURSIVE pick(_, _, _)
pick(ps, keep, i) ==
  IF i > Len(ps) THEN <<>>
  ELSE (IF i \in keep THEN <<ps[i]>> ELSE <<>>) \o pick(ps, keep, i + 1)

\* C20: the totals are the sums over the positions, pl is mkt - invested and
\* the sum of the positions' pl, plPct is pl / invested * 100 for invested > 0
\* and 0 otherwise; the signal list holds exactly the positions whose signal
\* is not HOLD and the allocation series exactly those with qty > 0 and
\* mktValue > 0, in the order of the positions.
C20_Totals ==
  hasCurrent =>
    LET ps == positions
        t  == totalsOf(ps)
    IN  /\ t.invested = SumFrom(ps, "invested", 1)
        /\ t.mkt = SumFrom(ps, "mktValue", 1)
        /\ t.divs = SumFrom(ps, "divsTotal", 1)
        /\ t.pl = RSub(t.mkt, t.invested)
        /\ t.pl = SumFrom(ps, "pl", 1)
        /\ t.plPct = IF RGt(t.invested, Zero)
                     THEN RDiv(RMul(t.pl, Hundred), t.invested) ELSE Zero
        /\ triggerSignals = pick(ps, { i \in 1..Len(ps) : ps[i].signal # "HOLD" }, 1)
        /\ tickersOf(allocData, "name") =
             tickersOf(pick(ps, { i \in 1..Len(ps) :
                                    RGt(ps[i].qty, Zero) /\ RGt(ps[i].mktValue, Zero) }, 1),
                       "ticker")

\* The demo's PETR4 is quoted at 30 and signals, its VALE3 is left with a
\* quote and no transaction: two positions, one signal, one allocation row.
C20_Witness ==
  /\ hasCurrent /\ sel = "demo"
  /\ Len(positions) = 2
  /\ Len(triggerSignals) = 1
  /\ tickersOf(allocData, "name") = <<"PETR4">>
  /\ RGt(totals.invested, Zero) /\ RLt(totals.pl, Zero)

----------------------------------------------------------------------------
(* SpecSort: three tickers in every order of transactions and quotes *)

MaxSortAdds == 2

SortTickers == {"ITUB4", "PETR4", "VALE3"}

SortTxInputs ==
  { [date |-> Today, ticker |-> ticker, type |-> "BUY", qty |-> Num(1), price |-> Num(10),
     fees |-> Zero] : ticker \in SortTickers }

InitSort == InitWith({emptyPortfolio})

SortAddTx == \E tx \in SortTxInputs : nextId < FirstId + MaxSortAdds /\ addTx(tx)
SortSetPrice == \E ticker \in SortTickers : setPrice(ticker, Num(10))

NextSort == SortAddTx \/ SortSetPrice

SpecSort == InitSort /\ [][NextSort]_vars

\* The UTF-16 code units of a ticker.
codeUnits(t) ==
  CASE t = "ITUB4" -> <<73, 84, 85, 66, 52>>
    [] t = "PETR4" -> <<80, 69, 84, 82, 52>>
    [] t = "VALE3" -> <<86, 65, 76, 69, 51>>

\* a is lexically smaller than b: at the first position where they differ a
\* has the smaller unit, or a is a proper prefix of b.
RECURSIVE LexLt(_, _)
LexLt(a, b) ==
  IF b = <<>> THEN FALSE
  ELSE IF a = <<>> THEN TRUE
  ELSE IF Head(a) # Head(b) THEN Head(a) < Head(b)
  ELSE LexLt(Tail(a), Tail(b))

----------------------------------------------------------------------------
(* SpecOversell: purchases and sales of one ticker, dated in any order *)

MaxOversellAdds == 3

OversellTxInputs ==
  { [date |-> d, ticker |-> "PETR4", type |-> ty, qty |-> Num(2), price |-> Num(10),
     fees |-> IF ty = "SELL" THEN Num(1) ELSE Zero] : d \in {1, 3}, ty \in {"BUY", "SELL"} }

InitOversell == InitWith({emptyPortfolio})

OversellAddTx == \E tx \in OversellTxInputs : nextId < FirstId + MaxOversellAdds /\ addTx(tx)
OversellSetPrice == setPrice("PETR4", Num(12))

NextOversell == OversellAddTx \/ OversellSetPrice

SpecOversell == InitOversell /\ [][NextOversell]_vars

\* The sum of the quantities of one type.
RECURSIVE SumQtyOfType(_, _)
SumQtyOfType(list, type) ==
  IF list = <<>> THEN Zero
  ELSE RAdd(IF Head(list).type = type THEN Head(list).qty ELSE Zero,
            SumQtyOfType(Tail(list), type))

\* The cost left by the transactions taken from the first stored one on,
\* from a running quantity and cost: a purchase adds qty * price + fees; a
\* sale made with a running quantity <= 0 adds its fees alone; any other sale
\* removes the running average times its quantity and adds its fees.
RECURSIVE CostInStoredOrder(_, _, _)
CostInStoredOrder(list, qty, cost) ==
  IF list = <<>> THEN cost
  ELSE LET t == Head(list)
       IN  IF t.type = "BUY"
           THEN CostInStoredOrder(Tail(list), RAdd(qty, t.qty),
                                  RAdd(cost, RAdd(RMul(t.qty, t.price), t.fees)))
           ELSE IF RLe(qty, Zero)
           THEN CostInStoredOrder(Tail(list), RSub(qty, t.qty), RAdd(cost, t.fees))
           ELSE CostInStoredOrder(Tail(list), RSub(qty, t.qty),
                                  RAdd(RSub(cost, RMul(RDiv(cost, qty), t.qty)), t.fees))

\* C22: for every ticker with transactions, the Position's qty is the sum of
\* the purchases minus the sum of the sales, unclamped; its invested is the
\* cost left by the transactions in stored order, where a sale made with a
\* running quantity <= 0 removes no cost and adds its fees; a qty <= 0 gives
\* avgPrice 0; mktValue is qty * lastPrice and pl is mktValue - invested.
C22_OversellNotCorrected ==
  hasCurrent =>
    \A ticker \in Tickers :
      hasTx(current, ticker) =>
        LET list == txByTicker(current.transactions, ticker)
            x    == positionOf(positions, ticker)
        IN  /\ x.qty = RSub(SumQtyOfType(list, "BUY"), SumQtyOfType(list, "SELL"))
            /\ x.invested = CostInStoredOrder(list, Zero, Zero)
            /\ RLe(x.qty, Zero) => x.avgPrice = Zero
            /\ x.mktValue = RMul(x.qty, x.lastPrice)
            /\ x.pl = RSub(x.mktValue, x.invested)

\* A sale dated day 3 is stored before a purchase dated day 1, and a second
\* sale follows: both sales met a running quantity <= 0 and added their fee
\* of 1 to the purchase's cost of 20; the quantity is -2 and the quote of 12
\* gives a market value of -24.
C22_Witness ==
  /\ hasCurrent
  /\ Len(current.transactions) = 3
  /\ current.transactions[1].type = "SELL" /\ current.transactions[1].date = 3
  /\ current.transactions[2].type = "BUY" /\ current.transactions[2].date = 1
  /\ current.transactions[3].type = "SELL"
  /\ LET x == positionOf(positions, "PETR4")
     IN  /\ x.qty = Num(-2)
         /\ x.invested = Num(22)
         /\ x.avgPrice = Zero
         /\ x.mktValue = Num(-24)
         /\ x.pl = Num(-46)

----------------------------------------------------------------------------
(* SpecZeroQuote: a stored portfolio that holds a quote of price 0 *)

\* A stored portfolio whose only quote has price 0; PriceForm rejects such a
\* price, loadAll does not.
zeroQuotePortfolio ==
  [id |-> "p5", name |-> "Portfolio 5", transactions |-> <<>>,
   prices |-> << Quote("PETR4", Zero) >>,
   triggers |-> <<>>, dividends |-> <<>>, history |-> <<>>]

ZeroQuoteTxInputs ==
  { [date |-> Today, ticker |-> ticker, type |-> "BUY", qty |-> Num(2), price |-> Num(40),
     fees |-> Zero] : ticker \in Tickers }

InitZeroQuote == InitWith({zeroQuotePortfolio})

ZeroQuoteAddTx ==
  \E tx \in ZeroQuoteTxInputs : nextId < FirstId + MaxQuoteAdds /\ addTx(tx)

NextZeroQuote == QuotesSetPrice \/ QuotesSetTrigger \/ ZeroQuoteAddTx \/ QuotesRemoveTx

SpecZeroQuote == InitZeroQuote /\ [][NextZeroQuote]_vars

\* C23: for every Position, of a ticker with transactions or with a quote
\* alone, a lastPrice of 0 gives the signal HOLD; the signal is BUY only when
\* buyPrice is set, lastPrice > 0 and lastPrice <= buyPrice, and SELL only
\* when sellPrice is set, lastPrice > 0 and lastPrice >= sellPrice.
C23_SignalNeedsPositiveQuote ==
  hasCurrent =>
    \A i \in 1..Len(positions) :
      LET x == positions[i]
      IN  /\ x.lastPrice = Zero => x.signal = "HOLD"
          /\ x.signal = "BUY" =>
               /\ x.trigger # <<>> /\ NotNull(x.trigger[1].buyPrice)
               /\ RGt(x.lastPrice, Zero) /\ RLe(x.lastPrice, x.trigger[1].buyPrice)
          /\ x.signal = "SELL" =>
               /\ x.trigger # <<>> /\ NotNull(x.trigger[1].sellPrice)
               /\ RGt(x.lastPrice, Zero) /\ RGe(x.lastPrice, x.trigger[1].sellPrice)

\* C23 for the tickers that have transactions.
C23_HeldSignalNeedsPositiveQuote ==
  hasCurrent =>
    \A i \in 1..Len(positions) :
      LET x == positions[i]
      IN  hasTx(current, x.ticker) =>
            /\ x.lastPrice = Zero => x.signal = "HOLD"
            /\ x.signal = "BUY" =>
                 /\ x.trigger # <<>> /\ NotNull(x.trigger[1].buyPrice)
                 /\ RGt(x.lastPrice, Zero) /\ RLe(x.lastPrice, x.trigger[1].buyPrice)
            /\ x.signal = "SELL" =>
                 /\ x.trigger # <<>> /\ NotNull(x.trigger[1].sellPrice)
                 /\ RGt(x.lastPrice, Zero) /\ RGe(x.lastPrice, x.trigger[1].sellPrice)

\* The quote of price 0 belongs to a ticker that has a transaction and a
\* trigger with buyPrice 40: the signal is HOLD.
C23_HeldWitness ==
  /\ hasCurrent
  /\ hasTx(current, "PETR4") /\ hasTrigger(current, "PETR4")
  /\ LET x == positionOf(positions, "PETR4")
     IN  /\ x.lastPrice = Zero
         /\ x.trigger[1].buyPrice = Num(40)
         /\ x.signal = "HOLD"

----------------------------------------------------------------------------
(* The frame of the mutation commands *)

\* The step leaves the selection, the number and order of the portfolios,
\* every portfolio other than the selected one and every field of the
\* selected one other than list f as they were.
onlyListChanged(f) ==
  /\ sel' = sel
  /\ Len(data') = Len(data)
  /\ \A i \in 1..Len(data) :
       IF data[i].id = sel
       THEN \A g \in (DOMAIN data[i]) \ {f} : data'[i][g] = data[i][g]
       ELSE data'[i] = data[i]

\* list without the records of the given id, the others in their order.
RECURSIVE withoutId(_, _)
withoutId(list, id) ==
  IF list = <<>> THEN <<>>
  ELSE IF Head(list).id = id THEN withoutId(Tail(list), id)
  ELSE <<Head(list)>> \o withoutId(Tail(list), id)

\* The list f of the selected portfolio after the step.
listAfter(f) == data'[currentIdx][f]

MaxFrameAdds == 1

\* A stored collection of two portfolios, the first one selected by the mount
\* effect.
InitFrame ==
  /\ data = <<demo, emptyPortfolio>>
  /\ sel = demo.id
  /\ nextId = FirstId
  /\ csvText = EmptyText
  /\ saved = saveAll(data)
  /\ remoteIdle

FrameSelect == \E i \in 1..Len(data) : selectPortfolio(data[i].id)
FrameDelete == deletePortfolio
FrameAddTx == \E tx \in PersistTxInputs : nextId < FirstId + MaxFrameAdds /\ addTx(tx)
FrameRemoveTx ==
  hasCurrent /\ \E i \in 1..Len(current.transactions) : removeTx(current.transactions[i].id)
FrameSetPrice == setPrice("PETR4", Num(30))
FrameSetTrigger == \E tr \in PersistTriggerInputs : setTrigger("PETR4", tr)
FrameAddDividend ==
  \E d1 \in PersistDividendInputs : nextId < FirstId + MaxFrameAdds /\ addDividend(d1)
FrameRemoveDividend ==
  hasCurrent /\ \E i \in 1..Len(current.dividends) : removeDividend(current.dividends[i].id)
FrameAddHistory ==
  \E row \in PersistHistoryInputs :
    hasCurrent /\ Len(current.history) < MaxFrameAdds /\ addHistory(row)

NextFrame ==
  \/ FrameSelect \/ FrameDelete
  \/ FrameAddTx \/ FrameRemoveTx \/ FrameSetPrice \/ FrameSetTrigger
  \/ FrameAddDividend \/ FrameRemoveDividend \/ FrameAddHistory

SpecFrame == InitFrame /\ [][NextFrame]_vars

\* C24: addTx, removeTx, setPrice, setTrigger, addDividend, removeDividend
\* and the history form's onAdd change only their one list of the selected
\* portfolio: the other portfolios, the other fields and the selection stay;
\* removeTx and removeDividend remove exactly the records of the given id and
\* keep the order of the rest; with no selected portfolio no step changes the
\* collection.
C24_MutationFrame ==
  [][ /\ (\E tx \in PersistTxInputs : addTx(tx)) =>
           /\ onlyListChanged("transactions")
           /\ Len(listAfter("transactions")) = Len(current.transactions) + 1
           /\ SubSeq(listAfter("transactions"), 1, Len(current.transactions))
                = current.transactions
      /\ hasCurrent =>
           \A i \in 1..Len(current.transactions) :
             removeTx(current.transactions[i].id) =>
               /\ onlyListChanged("transactions")
               /\ listAfter("transactions")
                    = withoutId(current.transactions, current.transactions[i].id)
      /\ setPrice("PETR4", Num(30)) => onlyListChanged("prices")
      /\ (\E tr \in PersistTriggerInputs : setTrigger("PETR4", tr)) =>
           onlyListChanged("triggers")
      /\ (\E d1 \in PersistDividendInputs : addDividend(d1)) =>
           /\ onlyListChanged("dividends")
           /\ Len(listAfter("dividends")) = Len(current.dividends) + 1
           /\ SubSeq(listAfter("dividends"), 1, Len(current.dividends)) = current.dividends
      /\ hasCurrent =>
           \A i \in 1..Len(current.dividends) :
             removeDividend(current.dividends[i].id) =>
               /\ onlyListChanged("dividends")
               /\ listAfter("dividends")
                    = withoutId(current.dividends, current.dividends[i].id)
      /\ (\E row \in PersistHistoryInputs : addHistory(row)) =>
           /\ onlyListChanged("history")
           /\ Len(listAfter("history")) = Len(current.history) + 1
           /\ SubSeq(listAfter("history"), 1, Len(current.history)) = current.history
      /\ ~hasCurrent => data' = data
    ]_vars

\* Two portfolios, the second selected and changed by addTx, setPrice and
\* the history form, the first still the demo portfolio.
C24_Witness ==
  /\ Len(data) = 2
  /\ data[1] = demo
  /\ sel = data[2].id
  /\ Len(data[2].transactions) = 1
  /\ Len(data[2].prices) = 1
  /\ Len(data[2].history) = 1

\* No portfolio is selected and the collection is empty.
C24_NoneSelected == ~hasCurrent /\ data = <<>>

----------------------------------------------------------------------------
(* SpecLedger: the display of the "Dividendos" tab *)

\* The render of the ledger's rows: current.dividends.sort(...) sorts the
\* array held by the state in place, without setData, so the effect on
\* [data] does not run.
showDividends ==
  /\ hasCurrent
  /\ data' = [i \in 1..Len(data) |->
               IF i = currentIdx
               THEN [data[i] EXCEPT !.dividends = sortByDate(@, Len(@))]
               ELSE data[i]]
  /\ UNCHANGED <<sel, nextId, saved>>
  /\ UNCHANGED csvText
  /\ UNCHANGED remoteVars

InitLedger == InitWith({emptyPortfolio})

LedgerAddDividend ==
  \E d1 \in DividendInputs : nextId < FirstId + MaxDivAdds /\ addDividend(d1)
LedgerShow == showDividends

NextLedger == LedgerAddDividend \/ LedgerShow

SpecLedger == InitLedger /\ [][NextLedger]_vars

\* C25: the display of the dividend ledger leaves the document as it was,
\* the stored order of the dividends included; positions and totals are
\* computed from the document without a write.
C25_ReadingNeverWrites == [][showDividends => data' = data]_vars

\* The display of the ledger keeps the records of the dividends and every
\* other field; only their order can change.
C25_OnlyOrderChanges ==
  [][showDividends =>
       /\ onlyListChanged("dividends")
       /\ listAfter("dividends") = sortByDate(current.dividends, Len(current.dividends))
    ]_vars

\* The dividends are held in an order that is not the order they were
\* added in: the ledger was displayed after a dividend of day 3 and one of
\* day 1 were added.
C25_Reordered ==
  /\ hasCurrent
  /\ Len(current.dividends) = 2
  /\ current.dividends[1].id > current.dividends[2].id
  /\ current.dividends[1].date = 1 /\ current.dividends[2].date = 3

----------------------------------------------------------------------------
(* The selection *)

\* sel names a portfolio of the collection, or is empty with an empty one.
selectionOk(d, s) ==
  IF Len(d) > 0 THEN \E i \in 1..Len(d) : d[i].id = s ELSE s = ""

C26_EmptyWitness == data = <<>> /\ sel = ""

====
